---- MODULE Spec2Model ----
(***************************************************************************)
(* The three host programs of VkPrimer as one state machine:               *)
(*   "rt"      src/app/main_rt.cpp         (triangle BLAS, storage image)  *)
(*   "lsi"     src/apps/03_rt_lsi/main.cpp (AABB BLAS, hit records)        *)
(*   "compute" src/app/main.cpp            (compute dispatch)              *)
(* Each program is a straight line of statements.  The statements are      *)
(* listed, in source order and with the calls of helper functions          *)
(* expanded in place, by the operators Main_rt, Main_lsi and Main_compute. *)
(* A state is the position in that list together with the objects alive,   *)
(* the recorded command sequence and the outcome of every statement run.   *)
(* The parts of main that compute with data (the shader binding table, the *)
(* readback of the hit records, the shader loader, findMemoryType) are     *)
(* specified a second time on their own, statement by statement, with the  *)
(* values the device or the file system may supply: SpecSBT, SpecHits,     *)
(* SpecSpv and SpecFMT.                                                     *)
(***************************************************************************)
EXTENDS Integers, Sequences, FiniteSets, TLC

VARIABLES
  prog,       \* which program runs
  ndebug,     \* TRUE when the program is built with NDEBUG (assert removed)
  memTypes,   \* VkPhysicalDeviceMemoryProperties.memoryTypes[i].propertyFlags
  pc,         \* index of the next statement of Program
  status,     \* "running", "exit0", "exit1" (exit(1) / return 1), "abort"
  live,       \* objects created and not yet destroyed
  cmds,       \* commands recorded into the command buffer
  trace,      \* outcome of every statement executed so far, in order
  diag,       \* 0, or the statement named by the diagnostic on stderr
  fmTypeBits, \* arguments and result of the last findMemoryType call
  fmReq,
  fmRes,
  alloc,      \* the last vkAllocateMemory: memoryTypeIndex and what it was found for
  addr,       \* Buffer.addr of every Buffer that createBuffer returns
  \* the fragments of main that compute with data, each run on its own
  step,              \* position inside the fragment
  loopI,             \* the loop variable i of the fragment
  handleSize,        \* rtp.shaderGroupHandleSize
  handleAlign,       \* rtp.shaderGroupHandleAlignment
  handleSizeAligned, \* alignUp(handleSize, handleAlign)
  sbtSize,           \* sbt.size
  sbtMap,            \* the bytes written through sbtMap, by offset
  regions,           \* rgenRegion, missRegion, hitRegion, callRegion
  traced,            \* the regions vkCmdTraceRaysKHR was recorded with
  counter,           \* what the device left in bOutCounter
  hitCount,          \* the host's hitCount
  hitsRead,          \* the indices of hits[] the host has read
  fileExists,        \* whether the .spv file can be opened
  fileSize,          \* its length in bytes
  words,             \* the length of the vector the loader returned
  count,             \* indices.size() (main_rt.cpp) or aabbs.size() (03_rt_lsi/main.cpp)
  cur,               \* the builder that runs: "blas" or "tlas"
  primCount,         \* primCount of the running builder
  geom,              \* VkAccelerationStructureGeometryKHR geom of the running builder
  inst,              \* VkAccelerationStructureInstanceKHR inst
  sizes,             \* VkAccelerationStructureBuildSizesInfoKHR sizes
  ciSize,            \* ci.size of the last vkCreateBuffer
  accel,             \* Accel out of the two builders
  scratch,           \* Buffer scratch of the running builder
  instBuf,           \* Buffer instBuf and the bytes copied into it
  recorded,          \* what the builders recorded into cmd
  held,              \* the Buffer, Image and Accel records the destroy helpers are given
  destroyed,         \* the records the destroy helpers were called on, in order
  devCalls,          \* the vkDestroy* / vkFreeMemory calls made, in order
  pixelsRead,        \* the offsets, in floats, the host has read from the readback map
  printed            \* the hit count printed for each ray so far

mainVars == <<prog, ndebug, memTypes, pc, status, live, cmds, trace, diag,
              fmTypeBits, fmReq, fmRes, alloc, addr>>

sbtVars == <<handleSize, handleAlign, handleSizeAligned, sbtSize, sbtMap, regions, traced>>
hitVars == <<counter, hitCount, hitsRead>>
spvVars == <<fileExists, fileSize, words>>
asVars == <<count, cur, primCount, geom, inst, sizes, ciSize, accel, scratch, instBuf,
            recorded>>
tailVars == <<held, destroyed, devCalls, pixelsRead, printed>>
fragVars == <<step, loopI, sbtVars, hitVars, spvVars, asVars, tailVars>>

vars == <<mainVars, fragVars>>

(***************************************************************************)
(* Bounds of the model.                                                    *)
(***************************************************************************)
\* failures an assert-free build steps over before the model stops failing calls
MaxIgnored == 1
\* memory types a device of the findMemoryType specification reports at most
MaxTypes == 2
\* largest shaderGroupHandleSize of the shader-binding-table fragment, in bytes
MaxHandleSize == 6
\* largest shaderGroupHandleAlignment of the fragment is 2^MaxAlignLog2
MaxAlignLog2 == 3
\* bits the model keeps of a uint32_t
WordBits == 16
\* how far past the capacity (and past 0) the counter values of the readback go
MaxOverrun == 2
\* longest shader file of the loader fragment, in bytes
MaxFileSize == 9
\* most indices (main_rt.cpp) or boxes (03_rt_lsi/main.cpp) of the geometry
MaxCount == 4
\* the size a driver reports for an acceleration structure that holds nothing
MinSize == 2
MaxDestroys == 4
MaxHitsPerRay == 2

(***************************************************************************)
(* Vulkan values.                                                          *)
(***************************************************************************)
DEVICE_LOCAL == 1
HOST_VISIBLE == 2
HOST_COHERENT == 4
HostVisCoh == HOST_VISIBLE + HOST_COHERENT
AllProps == 0 .. 7
NoType == -1

RECURSIVE BitAnd(_, _)
BitAnd(a, b) ==
  IF a = 0 \/ b = 0 THEN 0
  ELSE (IF a % 2 = 1 /\ b % 2 = 1 THEN 1 ELSE 0) + 2 * BitAnd(a \div 2, b \div 2)

RECURSIVE Pow2(_)
Pow2(n) == IF n = 0 THEN 1 ELSE 2 * Pow2(n - 1)

(***************************************************************************)
(* findMemoryType: the search loop shared by the three programs.  The      *)
(* result is the index returned from inside the loop, or NoType when the   *)
(* loop runs to its end.                                                   *)
(***************************************************************************)
RECURSIVE findMemoryTypeFrom(_, _, _, _)
findMemoryTypeFrom(i, table, typeBits, req) ==
  IF i >= Len(table) THEN NoType
  ELSE IF BitAnd(typeBits, Pow2(i)) # 0 /\ BitAnd(table[i + 1], req) = req THEN i
  ELSE findMemoryTypeFrom(i + 1, table, typeBits, req)

\* a searcher that forgets the mask bit
findMemoryTypeNoMask(table, typeBits, req) ==
  findMemoryTypeFrom(0, table, Pow2(Len(table)) - 1, req)

findMemoryType(table, typeBits, req) == findMemoryTypeFrom(0, table, typeBits, req)

(***************************************************************************)
(* Statements.  op is the kind of statement, obj the object it acts on,    *)
(* fn the function whose body holds the statement, top the function main   *)
(* called to get there ("main" for a statement of main itself), line the   *)
(* source line, chk what the program does when the statement fails, req    *)
(* the property flags of a findMemoryType call, c the command a vkCmd*     *)
(* statement records, arg a qualifier, usage the usage flags of a          *)
(* vkCreateBuffer, da the deviceAddress argument of the createBuffer call   *)
(* the statement belongs to.                                               *)
(***************************************************************************)
NoObj == <<"", "">>
NoCmd == [kind |-> "none", obj |-> "", srcStage |-> {}, srcAccess |-> {},
          dstStage |-> {}, dstAccess |-> {}, oldL |-> "", newL |-> ""]

S(op, obj, fn, top, line, chk) ==
  [op |-> op, obj |-> obj, fn |-> fn, top |-> top, line |-> line, chk |-> chk,
   req |-> 0, c |-> NoCmd, arg |-> "", usage |-> {}, da |-> FALSE]

Cmd(kind, obj) == [NoCmd EXCEPT !.kind = kind, !.obj = obj]

Rec(c, fn, top, line) == [S("record", NoObj, fn, top, line, "none") EXCEPT !.c = c]

\* the failure policy of the VK_CHECK macro of each program
VK_CHECK(p) == IF p = "compute" THEN "assert" ELSE "exit"

\* line numbers of the helper functions, which differ between the two samples
Ln(p, rt, lsi) == IF p = "rt" THEN rt ELSE lsi

Top(top, fn) == IF top = "main" THEN fn ELSE top

\* a createBuffer that leaves the allocate-flags structure out of the pNext chain
createBufferNoAllocFlag(p, name, usage, req, deviceAddress, top) ==
  LET t == Top(top, "createBuffer")
      B(s) == [s EXCEPT !.da = deviceAddress]
      AddrBit == IF deviceAddress THEN {"SHADER_DEVICE_ADDRESS"} ELSE {} IN
  << B([S("create", <<name, "buf">>, "createBuffer", t, Ln(p, 84, 71), VK_CHECK(p))
          EXCEPT !.usage = usage \cup AddrBit]),
     B([S("findMemoryType", <<name, "mem">>, "createBuffer", t, Ln(p, 94, 81), "exit")
          EXCEPT !.req = req]),
     B(S("allocate", <<name, "mem">>, "createBuffer", t, Ln(p, 97, 84), VK_CHECK(p))),
     B(S("call", <<name, "bind">>, "createBuffer", t, Ln(p, 98, 85), VK_CHECK(p))) >>
  \o (IF deviceAddress
      THEN << B(S("host", <<name, "addr">>, "createBuffer", t, Ln(p, 103, 90), "none")) >>
      ELSE << >>)

createBuffer(p, name, usage, req, deviceAddress, top) ==
  LET t == Top(top, "createBuffer")
      B(s) == [s EXCEPT !.da = deviceAddress]
      AddrBit == IF deviceAddress THEN {"SHADER_DEVICE_ADDRESS"} ELSE {} IN
  << B([S("create", <<name, "buf">>, "createBuffer", t, Ln(p, 84, 71), VK_CHECK(p))
          EXCEPT !.usage = usage \cup AddrBit]),
     B([S("findMemoryType", <<name, "mem">>, "createBuffer", t, Ln(p, 94, 81), "exit")
          EXCEPT !.req = req]),
     B([S("allocate", <<name, "mem">>, "createBuffer", t, Ln(p, 97, 84), VK_CHECK(p))
          EXCEPT !.arg = IF deviceAddress THEN "DEVICE_ADDRESS" ELSE ""]),
     B(S("call", <<name, "bind">>, "createBuffer", t, Ln(p, 98, 85), VK_CHECK(p))) >>
  \o (IF deviceAddress
      THEN << B(S("host", <<name, "addr">>, "createBuffer", t, Ln(p, 103, 90), "none")) >>
      ELSE << >>)

mapBuffer(p, name, top) ==
  << S("map", <<name, "mem">>, "mapBuffer", Top(top, "mapBuffer"), Ln(p, 110, 97),
       VK_CHECK(p)) >>

unmapBuffer(p, name, top) ==
  << S("unmap", <<name, "mem">>, "unmapBuffer", Top(top, "unmapBuffer"),
       Ln(p, 115, 101), "none") >>

\* std::memcpy(mapBuffer(dev, b), src, n); unmapBuffer(dev, b);
upload(p, name, top, line) ==
  mapBuffer(p, name, top)
  \o << [S("host", <<name, "mem">>, top, top, line, "none") EXCEPT !.arg = "write"] >>
  \o unmapBuffer(p, name, top)

destroyBuffer(p, name, top) ==
  LET t == Top(top, "destroyBuffer") IN
  << S("destroy", <<name, "buf">>, "destroyBuffer", t, Ln(p, 119, 104), "none"),
     S("destroy", <<name, "mem">>, "destroyBuffer", t, Ln(p, 120, 105), "none") >>

createCmdPool(p) ==
  << S("create", <<"pool", "h">>, "createCmdPool", "createCmdPool", Ln(p, 183, 114),
       VK_CHECK(p)) >>

createCmdBuffer(p) ==
  << S("create", <<"cmd", "h">>, "createCmdBuffer", "createCmdBuffer", Ln(p, 193, 124),
       VK_CHECK(p)) >>

\* a submitAndWait that returns as soon as the work is queued
submitNoWait(p) ==
  << S("end", <<"cmd", "h">>, "submitAndWait", "submitAndWait", Ln(p, 198, 129),
       VK_CHECK(p)),
     S("submit", <<"cmd", "h">>, "submitAndWait", "submitAndWait", Ln(p, 202, 133),
       VK_CHECK(p)) >>

submitAndWait(p) ==
  << S("end", <<"cmd", "h">>, "submitAndWait", "submitAndWait", Ln(p, 198, 129),
       VK_CHECK(p)),
     S("submit", <<"cmd", "h">>, "submitAndWait", "submitAndWait", Ln(p, 202, 133),
       VK_CHECK(p)),
     S("wait", <<"queue", "h">>, "submitAndWait", "submitAndWait", Ln(p, 203, 134),
       VK_CHECK(p)) >>

(***************************************************************************)
(* Acceleration-structure builders.                                        *)
(***************************************************************************)
\* a barrier whose destination is the transfer stage instead of the trace
ASBuildBarrierToTransfer ==
  [NoCmd EXCEPT !.kind = "barrier",
                !.srcStage = {"ACCELERATION_STRUCTURE_BUILD"},
                !.srcAccess = {"ACCELERATION_STRUCTURE_WRITE"},
                !.dstStage = {"TRANSFER"},
                !.dstAccess = {"TRANSFER_READ"}]

\* VkMemoryBarrier mb + vkCmdPipelineBarrier after a build
ASBuildBarrier ==
  [NoCmd EXCEPT !.kind = "barrier",
                !.srcStage = {"ACCELERATION_STRUCTURE_BUILD"},
                !.srcAccess = {"ACCELERATION_STRUCTURE_WRITE"},
                !.dstStage = {"RAY_TRACING_SHADER"},
                !.dstAccess = {"ACCELERATION_STRUCTURE_READ"}]

cmdASBuildBarrier(top) == << Rec(ASBuildBarrier, "cmdASBuildBarrier", top, 154) >>

getASAddress(p, name, top) ==
  << S("host", <<name, "addr">>, "getASAddress", top, Ln(p, 238, 147), "none") >>

createBLAS_Triangles ==
  LET f == "createBLAS_Triangles" IN
  << S("host", <<"blas", "sizes">>, f, f, 272, "none") >>
  \o createBuffer("rt", "blasBacking", {"ACCELERATION_STRUCTURE_STORAGE"},
      DEVICE_LOCAL, TRUE, f)
  \o << S("create", <<"blas", "as">>, f, f, 286, "exit") >>
  \o createBuffer("rt", "blasScratch", {"STORAGE_BUFFER"},
      DEVICE_LOCAL, TRUE, f)
  \o << Rec(Cmd("build", "blas"), f, f, 301),
        Rec(ASBuildBarrier, f, f, 307) >>
  \o destroyBuffer("rt", "blasScratch", f)
  \o getASAddress("rt", "blas", f)

createBLAS_AABBs ==
  LET f == "createBLAS_AABBs" IN
  << S("host", <<"blas", "sizes">>, f, f, 181, "none") >>
  \o createBuffer("lsi", "blasBacking", {"ACCELERATION_STRUCTURE_STORAGE"},
      DEVICE_LOCAL, TRUE, f)
  \o << S("create", <<"blas", "as">>, f, f, 193, "exit") >>
  \o createBuffer("lsi", "blasScratch", {"STORAGE_BUFFER"},
      DEVICE_LOCAL, TRUE, f)
  \o << Rec(Cmd("build", "blas"), f, f, 206) >>
  \o cmdASBuildBarrier(f)
  \o destroyBuffer("lsi", "blasScratch", f)
  \o getASAddress("lsi", "blas", f)

\* a TLAS builder that records the build a second time after the barrier
createTLAS_BuiltTwice(p) ==
  LET f == "createTLAS_OneInstance" IN
  createBuffer(p, "instBuf", {"AS_BUILD_INPUT_READ_ONLY", "TRANSFER_DST"},
      HostVisCoh, TRUE, f)
  \o upload(p, "instBuf", f, Ln(p, 342, 234))
  \o << S("host", <<"tlas", "sizes">>, f, f, Ln(p, 364, 256), "none") >>
  \o createBuffer(p, "tlasBacking", {"ACCELERATION_STRUCTURE_STORAGE"},
      DEVICE_LOCAL, TRUE, f)
  \o << S("create", <<"tlas", "as">>, f, f, Ln(p, 378, 268), "exit") >>
  \o createBuffer(p, "tlasScratch", {"STORAGE_BUFFER"},
      DEVICE_LOCAL, TRUE, f)
  \o << Rec(Cmd("build", "tlas"), f, f, Ln(p, 393, 281)) >>
  \o (IF p = "rt" THEN << Rec(ASBuildBarrier, f, f, 398) >> ELSE cmdASBuildBarrier(f))
  \o << Rec(Cmd("build", "tlas"), f, f, Ln(p, 393, 281)) >>
  \o getASAddress(p, "tlas", f)

createTLAS_OneInstance(p) ==
  LET f == "createTLAS_OneInstance" IN
  createBuffer(p, "instBuf", {"AS_BUILD_INPUT_READ_ONLY", "TRANSFER_DST"},
      HostVisCoh, TRUE, f)
  \o upload(p, "instBuf", f, Ln(p, 342, 234))
  \o << S("host", <<"tlas", "sizes">>, f, f, Ln(p, 364, 256), "none") >>
  \o createBuffer(p, "tlasBacking", {"ACCELERATION_STRUCTURE_STORAGE"},
      DEVICE_LOCAL, TRUE, f)
  \o << S("create", <<"tlas", "as">>, f, f, Ln(p, 378, 268), "exit") >>
  \o createBuffer(p, "tlasScratch", {"STORAGE_BUFFER"},
      DEVICE_LOCAL, TRUE, f)
  \o << Rec(Cmd("build", "tlas"), f, f, Ln(p, 393, 281)) >>
  \o (IF p = "rt" THEN << Rec(ASBuildBarrier, f, f, 398) >> ELSE cmdASBuildBarrier(f))
  \o getASAddress(p, "tlas", f)

destroyAccel(p, name, top) ==
  LET t == Top(top, "destroyAccel") IN
  << S("destroy", <<name, "as">>, "destroyAccel", t, Ln(p, 412, 292), "none") >>
  \o destroyBuffer(p, IF name = "blas" THEN "blasBacking" ELSE "tlasBacking", t)

(***************************************************************************)
(* Images (main_rt.cpp only).                                              *)
(***************************************************************************)
createStorageImageRGBA32F ==
  LET f == "createStorageImageRGBA32F" IN
  << S("create", <<"outIm", "img">>, f, f, 149, "exit"),
     [S("findMemoryType", <<"outIm", "mem">>, f, f, 155, "exit")
        EXCEPT !.req = DEVICE_LOCAL],
     S("allocate", <<"outIm", "mem">>, f, f, 156, "exit"),
     S("call", <<"outIm", "bind">>, f, f, 157, "exit"),
     S("create", <<"outIm", "view">>, f, f, 166, "exit") >>

destroyImage ==
  LET f == "destroyImage" IN
  << S("destroy", <<"outIm", "view">>, f, f, 172, "none"),
     S("destroy", <<"outIm", "img">>, f, f, 173, "none"),
     S("destroy", <<"outIm", "mem">>, f, f, 174, "none") >>

\* a transition that always names UNDEFINED as the old layout
cmdTransitionImageFromUndefined(oldL, newL) ==
  << Rec([NoCmd EXCEPT !.kind = "imageBarrier", !.obj = "outIm",
                       !.srcStage = {"ALL_COMMANDS"}, !.dstStage = {"ALL_COMMANDS"},
                       !.oldL = "UNDEFINED", !.newL = newL],
         "cmdTransitionImage", "cmdTransitionImage", 222) >>

cmdTransitionImage(oldL, newL) ==
  << Rec([NoCmd EXCEPT !.kind = "imageBarrier", !.obj = "outIm",
                       !.srcStage = {"ALL_COMMANDS"}, !.dstStage = {"ALL_COMMANDS"},
                       !.oldL = oldL, !.newL = newL],
         "cmdTransitionImage", "cmdTransitionImage", 222) >>

(***************************************************************************)
(* main of src/app/main_rt.cpp.                                            *)
(***************************************************************************)
M(op, obj, line, chk) == S(op, obj, "main", "main", line, chk)

MRec(kind, obj, line) == Rec(Cmd(kind, obj), "main", "main", line)

makeModule(name, line) == S("create", <<name, "h">>, "makeModule", "makeModule", line, "exit")

BringUp_rt ==
  << M("call", <<"volk", "init">>, 436, "exit"),
     M("create", <<"instance", "h">>, 451, "exit"),
     M("call", <<"phys", "count">>, 456, "exit"),
     M("check", <<"phys", "pdCount">>, 457, "return1"),
     M("call", <<"phys", "list">>, 463, "exit"),
     M("check", <<"phys", "rayTracingPipeline">>, 490, "return1"),
     M("check", <<"phys", "computeQueue">>, 513, "return1"),
     M("check", <<"phys", "features">>, 550, "return1"),
     M("create", <<"dev", "h">>, 576, "exit"),
     M("host", <<"queue", "h">>, 581, "none") >>
  \o createCmdPool("rt") \o createCmdBuffer("rt")

Setup_rt ==
  createBuffer("rt", "vbo", {"AS_BUILD_INPUT_READ_ONLY"},
      HostVisCoh, TRUE, "main")
  \o createBuffer("rt", "ibo", {"AS_BUILD_INPUT_READ_ONLY"},
      HostVisCoh, TRUE, "main")
  \o upload("rt", "vbo", "main", 622)
  \o upload("rt", "ibo", "main", 624)
  \o createStorageImageRGBA32F

Record_rt ==
  << M("begin", <<"cmd", "h">>, 635, "exit") >>
  \o createBLAS_Triangles
  \o createTLAS_OneInstance("rt")
  \o cmdTransitionImage("UNDEFINED", "GENERAL")
  \o << M("create", <<"dsl", "h">>, 675, "exit"),
        M("create", <<"pipelineLayout", "h">>, 708, "exit"),
        M("create", <<"dpool", "h">>, 721, "exit"),
        M("create", <<"dset", "h">>, 728, "exit"),
        M("host", <<"dset", "update">>, 756, "none"),
        S("loadSpv", <<"raygen.spv", "file">>, "loadSpv", "loadSpv", 765, "exit"),
        S("loadSpv", <<"miss.spv", "file">>, "loadSpv", "loadSpv", 766, "exit"),
        S("loadSpv", <<"chit.spv", "file">>, "loadSpv", "loadSpv", 767, "exit"),
        S("loadSpv", <<"ahit.spv", "file">>, "loadSpv", "loadSpv", 768, "exit"),
        makeModule("mRaygen", 779),
        makeModule("mMiss", 780),
        makeModule("mChit", 781),
        makeModule("mAhit", 782),
        M("create", <<"pipeline", "h">>, 842, "exit"),
        M("call", <<"pipeline", "handles">>, 859, "exit") >>
  \o createBuffer("rt", "sbt", {"SHADER_BINDING_TABLE", "TRANSFER_DST"},
      HostVisCoh, TRUE, "main")
  \o upload("rt", "sbt", "main", 870)
  \o << MRec("bindPipeline", "pipeline", 891),
        MRec("bindDescriptorSets", "dset", 892),
        MRec("pushConstants", "push", 893),
        MRec("traceRays", "tlas", 896) >>
  \o createBuffer("rt", "readback", {"TRANSFER_DST"},
      HostVisCoh, FALSE, "main")
  \o cmdTransitionImage("GENERAL", "TRANSFER_SRC_OPTIMAL")
  \o << MRec("copyImageToBuffer", "readback", 917) >>

Readback_rt ==
  mapBuffer("rt", "readback", "main")
  \o << [M("host", <<"readback", "mem">>, 936, "none") EXCEPT !.arg = "read"] >>
  \o unmapBuffer("rt", "readback", "main")

Cleanup_rt ==
  destroyBuffer("rt", "readback", "main")
  \o destroyBuffer("rt", "sbt", "main")
  \o << M("destroy", <<"pipeline", "h">>, 949, "none"),
        M("destroy", <<"mRaygen", "h">>, 950, "none"),
        M("destroy", <<"mMiss", "h">>, 951, "none"),
        M("destroy", <<"mChit", "h">>, 952, "none"),
        M("destroy", <<"dpool", "h">>, 954, "none"),
        M("destroy", <<"dsl", "h">>, 955, "none"),
        M("destroy", <<"pipelineLayout", "h">>, 956, "none") >>
  \o destroyAccel("rt", "tlas", "main")
  \o destroyAccel("rt", "blas", "main")
  \o destroyImage
  \o destroyBuffer("rt", "vbo", "main")
  \o destroyBuffer("rt", "ibo", "main")
  \o << M("destroy", <<"pool", "h">>, 965, "none"),
        M("destroy", <<"dev", "h">>, 966, "none"),
        M("destroy", <<"instance", "h">>, 967, "none"),
        M("return0", NoObj, 970, "none") >>

\* a main that frees the shader binding table once the dispatch is recorded
Main_rt_SbtFreedAfterRecording ==
  BringUp_rt \o Setup_rt \o Record_rt \o destroyBuffer("rt", "sbt", "main")
  \o submitAndWait("rt") \o Readback_rt \o Cleanup_rt

Main_rt ==
  BringUp_rt \o Setup_rt \o Record_rt \o submitAndWait("rt") \o Readback_rt \o Cleanup_rt

(***************************************************************************)
(* main of src/apps/03_rt_lsi/main.cpp.                                    *)
(***************************************************************************)
BringUp_lsi ==
  << M("call", <<"volk", "init">>, 323, "exit"),
     M("create", <<"instance", "h">>, 337, "exit"),
     M("call", <<"phys", "count">>, 342, "exit"),
     M("check", <<"phys", "pdCount">>, 343, "return1"),
     M("call", <<"phys", "list">>, 349, "exit"),
     M("check", <<"phys", "rayTracingPipeline">>, 364, "return1"),
     M("check", <<"phys", "computeQueue">>, 382, "return1"),
     M("check", <<"phys", "features">>, 412, "return1"),
     M("create", <<"dev", "h">>, 431, "exit"),
     M("host", <<"queue", "h">>, 435, "none") >>
  \o createCmdPool("lsi") \o createCmdBuffer("lsi")

makeHostSSBO(name) ==
  createBuffer("lsi", name,
      {"STORAGE_BUFFER", "SHADER_DEVICE_ADDRESS", "AS_BUILD_INPUT_READ_ONLY"},
      HostVisCoh, TRUE, "main")

Setup_lsi ==
  makeHostSSBO("bQueryPts")
  \o makeHostSSBO("bQueryEdge")
  \o makeHostSSBO("bBasePts")
  \o makeHostSSBO("bBaseEdge")
  \o makeHostSSBO("bAABBs")
  \o upload("lsi", "bQueryPts", "main", 505)
  \o upload("lsi", "bQueryEdge", "main", 507)
  \o upload("lsi", "bBasePts", "main", 509)
  \o upload("lsi", "bBaseEdge", "main", 511)
  \o upload("lsi", "bAABBs", "main", 513)
  \o createBuffer("lsi", "bOutHits", {"STORAGE_BUFFER", "TRANSFER_SRC"},
      HostVisCoh, FALSE, "main")
  \o createBuffer("lsi", "bOutCounter", {"STORAGE_BUFFER", "TRANSFER_SRC"},
      HostVisCoh, FALSE, "main")
  \o upload("lsi", "bOutCounter", "main", 529)

Record_lsi ==
  << M("begin", <<"cmd", "h">>, 534, "exit") >>
  \o createBLAS_AABBs
  \o createTLAS_OneInstance("lsi")
  \o << M("create", <<"dsl", "h">>, 588, "exit"),
        M("create", <<"pipelineLayout", "h">>, 605, "exit"),
        M("create", <<"dpool", "h">>, 620, "exit"),
        M("create", <<"dset", "h">>, 628, "exit"),
        M("host", <<"dset", "update">>, 679, "none"),
        S("loadSpv", <<"raygen.spv", "file">>, "loadSpv", "loadSpv", 692, "exit"),
        S("loadSpv", <<"miss.spv", "file">>, "loadSpv", "loadSpv", 693, "exit"),
        S("loadSpv", <<"isect.spv", "file">>, "loadSpv", "loadSpv", 694, "exit"),
        S("loadSpv", <<"ahit.spv", "file">>, "loadSpv", "loadSpv", 695, "exit"),
        S("loadSpv", <<"chit.spv", "file">>, "loadSpv", "loadSpv", 696, "exit"),
        makeModule("mRaygen", 707),
        makeModule("mMiss", 708),
        makeModule("mIsect", 709),
        makeModule("mAhit", 710),
        makeModule("mChit", 711),
        M("create", <<"pipeline", "h">>, 765, "exit"),
        M("call", <<"pipeline", "handles">>, 784, "exit") >>
  \o createBuffer("lsi", "sbt", {"SHADER_BINDING_TABLE", "SHADER_DEVICE_ADDRESS"},
      HostVisCoh, TRUE, "main")
  \o upload("lsi", "sbt", "main", 793)
  \o << MRec("bindPipeline", "pipeline", 810),
        MRec("bindDescriptorSets", "dset", 811),
        MRec("pushConstants", "push", 817),
        MRec("traceRays", "tlas", 823) >>

Readback_lsi ==
  mapBuffer("lsi", "bOutCounter", "main")
  \o << [M("host", <<"bOutCounter", "mem">>, 828, "none") EXCEPT !.arg = "read"] >>
  \o unmapBuffer("lsi", "bOutCounter", "main")
  \o mapBuffer("lsi", "bOutHits", "main")
  \o << [M("host", <<"bOutHits", "mem">>, 836, "none") EXCEPT !.arg = "read"] >>
  \o unmapBuffer("lsi", "bOutHits", "main")

Cleanup_lsi ==
  destroyBuffer("lsi", "sbt", "main")
  \o << M("destroy", <<"pipeline", "h">>, 845, "none"),
        M("destroy", <<"mRaygen", "h">>, 847, "none"),
        M("destroy", <<"mMiss", "h">>, 848, "none"),
        M("destroy", <<"mIsect", "h">>, 849, "none"),
        M("destroy", <<"mAhit", "h">>, 850, "none"),
        M("destroy", <<"mChit", "h">>, 851, "none"),
        M("destroy", <<"dpool", "h">>, 853, "none"),
        M("destroy", <<"dsl", "h">>, 854, "none"),
        M("destroy", <<"pipelineLayout", "h">>, 855, "none") >>
  \o destroyAccel("lsi", "tlas", "main")
  \o destroyAccel("lsi", "blas", "main")
  \o destroyBuffer("lsi", "bQueryPts", "main")
  \o destroyBuffer("lsi", "bQueryEdge", "main")
  \o destroyBuffer("lsi", "bBasePts", "main")
  \o destroyBuffer("lsi", "bBaseEdge", "main")
  \o destroyBuffer("lsi", "bAABBs", "main")
  \o destroyBuffer("lsi", "bOutHits", "main")
  \o destroyBuffer("lsi", "bOutCounter", "main")
  \o << M("destroy", <<"pool", "h">>, 868, "none"),
        M("destroy", <<"dev", "h">>, 869, "none"),
        M("destroy", <<"instance", "h">>, 870, "none"),
        M("return0", NoObj, 873, "none") >>

\* a main that prints the hits before it submits the work
Main_lsi_ReadBeforeWait ==
  BringUp_lsi \o Setup_lsi \o Record_lsi \o Readback_lsi \o submitAndWait("lsi")
  \o Cleanup_lsi

Main_lsi ==
  BringUp_lsi \o Setup_lsi \o Record_lsi \o submitAndWait("lsi") \o Readback_lsi
  \o Cleanup_lsi

(***************************************************************************)
(* main of src/app/main.cpp.  Every check of this program is an assert.    *)
(***************************************************************************)
makeBuffer(name) ==
  << S("create", <<name, "buf">>, "makeBuffer", "makeBuffer", 120, "assert"),
     [S("findMemoryType", <<name, "mem">>, "makeBuffer", "makeBuffer", 129, "assert")
        EXCEPT !.req = HostVisCoh],
     S("allocate", <<name, "mem">>, "makeBuffer", "makeBuffer", 133, "assert"),
     S("call", <<name, "bind">>, "makeBuffer", "makeBuffer", 136, "assert") >>

hostFill(name, mapLine, writeLine, unmapLine) ==
  << M("map", <<name, "mem">>, mapLine, "assert"),
     [M("host", <<name, "mem">>, writeLine, "none") EXCEPT !.arg = "write"],
     M("unmap", <<name, "mem">>, unmapLine, "none") >>

BringUp_compute ==
  << M("create", <<"instance", "h">>, 62, "assert"),
     M("call", <<"phys", "count">>, 66, "assert"),
     M("check", <<"phys", "pdCount">>, 67, "assert"),
     M("call", <<"phys", "list">>, 70, "assert"),
     S("check", <<"phys", "queueFamilyCount">>, "findQueueFamily", "findQueueFamily",
       30, "assert"),
     S("check", <<"phys", "computeQueue">>, "findQueueFamily", "findQueueFamily",
       39, "assert"),
     M("create", <<"dev", "h">>, 90, "assert"),
     M("host", <<"queue", "h">>, 93, "none"),
     M("create", <<"pool", "h">>, 100, "assert"),
     M("create", <<"cmd", "h">>, 108, "assert") >>

Setup_compute ==
  makeBuffer("A") \o makeBuffer("B") \o makeBuffer("Out")
  \o hostFill("A", 145, 147, 149)
  \o hostFill("B", 151, 153, 155)
  \o << M("create", <<"dsl", "h">>, 171, "assert"),
        M("create", <<"pipelineLayout", "h">>, 178, "assert"),
        M("create", <<"dpool", "h">>, 191, "assert"),
        M("create", <<"dset", "h">>, 199, "assert"),
        M("host", <<"dset", "update">>, 217, "none"),
        S("loadSpv", <<"add.spv", "file">>, "readSpirvU32", "readSpirvU32", 220, "assert"),
        M("create", <<"shader", "h">>, 227, "assert"),
        M("create", <<"pipeline", "h">>, 242, "assert") >>

Record_compute ==
  << M("begin", <<"cmd", "h">>, 247, "assert"),
     MRec("bindPipeline", "pipeline", 249),
     MRec("bindDescriptorSets", "dset", 250),
     MRec("dispatch", "Out", 252) >>

Submit_compute ==
  << M("end", <<"cmd", "h">>, 254, "assert"),
     M("submit", <<"cmd", "h">>, 261, "assert"),
     M("wait", <<"queue", "h">>, 262, "assert") >>

Readback_compute ==
  << M("map", <<"Out", "mem">>, 265, "assert"),
     [M("host", <<"Out", "mem">>, 267, "none") EXCEPT !.arg = "read"],
     M("unmap", <<"Out", "mem">>, 268, "none"),
     M("return0", NoObj, 271, "none") >>

Main_compute ==
  BringUp_compute \o Setup_compute \o Record_compute \o Submit_compute
  \o Readback_compute

Programs == {"rt", "lsi", "compute"}

Program(p) ==
  IF p = "rt" THEN Main_rt ELSE IF p = "lsi" THEN Main_lsi ELSE Main_compute

(***************************************************************************)
(* The run.                                                                *)
(***************************************************************************)
\* memory-type tables of the devices the three programs are run on
DeviceTables ==
  { << DEVICE_LOCAL, HostVisCoh >>,
    << HostVisCoh, DEVICE_LOCAL >>,
    << HOST_VISIBLE, DEVICE_LOCAL + HostVisCoh >>,
    << DEVICE_LOCAL >> }

\* memoryTypeBits the driver reports for a resource
TypeBitsChoices == {1, 2, 3}

Code == Program(prog)

\* the Buffers of a program: one per createBuffer call
Buffers(p) ==
  {Program(p)[i].obj[1] : i \in {j \in DOMAIN Program(p) : Program(p)[j].fn = "createBuffer"}}
Running == status = "running" /\ pc <= Len(Code)
Cur == Code[pc]

Failed(i) == i \in DOMAIN trace /\ trace[i] = "fail"
Ignored == Cardinality({i \in DOMAIN trace : trace[i] = "fail"})

\* objects that go away with the pool they were allocated from
Children(obj) ==
  IF obj = <<"dpool", "h">> THEN {<<"dset", "h">>}
  ELSE IF obj = <<"pool", "h">> THEN {<<"cmd", "h">>}
  ELSE {}

\* The statement at pc has succeeded.
Advance ==
  /\ pc' = pc + 1
  /\ trace' = Append(trace, "ok")
  /\ UNCHANGED <<prog, ndebug, memTypes, status, diag>>

\* The statement at pc has failed: VK_CHECK, exit(1), return 1 or assert.
Fail ==
  /\ trace' = Append(trace, "fail")
  /\ IF Cur.chk = "assert"
     THEN IF ndebug
          THEN /\ Ignored < MaxIgnored
               /\ pc' = pc + 1
               /\ UNCHANGED <<status, diag>>
          ELSE /\ status' = "abort"
               /\ diag' = pc
               /\ pc' = pc
     ELSE /\ Cur.chk \in {"exit", "return1"}
          /\ status' = "exit1"
          /\ diag' = pc
          /\ pc' = pc
  /\ UNCHANGED <<prog, ndebug, memTypes>>

UnchangedFM == UNCHANGED <<fmTypeBits, fmReq, fmRes, alloc>>

\* vkCreate* / vkAllocateCommandBuffers / vkAllocateDescriptorSets
Create ==
  /\ Running /\ Cur.op = "create"
  /\ \/ Advance /\ live' = live \cup {Cur.obj}
     \/ Fail /\ UNCHANGED live
  /\ UNCHANGED cmds /\ UnchangedFM /\ UNCHANGED addr
  /\ UNCHANGED fragVars

\* a call that can fail and creates nothing
Call ==
  /\ Running /\ Cur.op = "call"
  /\ (Advance \/ Fail)
  /\ UNCHANGED <<live, cmds>> /\ UnchangedFM /\ UNCHANGED addr
  /\ UNCHANGED fragVars

\* a host test of what the device reported
Check ==
  /\ Running /\ Cur.op = "check"
  /\ (Advance \/ Fail)
  /\ UNCHANGED <<live, cmds>> /\ UnchangedFM /\ UNCHANGED addr
  /\ UNCHANGED fragVars

\* the address vkGetBufferDeviceAddress hands out: never 0, one per buffer
DeviceAddress(i) == i

\* a host statement that cannot fail; the one at createBuffer's end stores the
\* device address in b.addr
Host ==
  /\ Running /\ Cur.op = "host"
  /\ Advance
  /\ addr' = IF Cur.fn = "createBuffer" /\ Cur.obj[2] = "addr"
             THEN [addr EXCEPT ![Cur.obj[1]] = DeviceAddress(pc)]
             ELSE addr
  /\ UNCHANGED <<live, cmds>> /\ UnchangedFM
  /\ UNCHANGED fragVars

LoadSpv ==
  /\ Running /\ Cur.op = "loadSpv"
  /\ (Advance \/ Fail)
  /\ UNCHANGED <<live, cmds>> /\ UnchangedFM /\ UNCHANGED addr
  /\ UNCHANGED fragVars

\* what findMemoryType hands back once its loop has found nothing: exit(1) and
\* a failed assert return nothing; with the assert compiled out, "return 0" runs
NotFound(chk, nd) == IF chk = "assert" /\ nd THEN 0 ELSE NoType

NoAlloc == [type |-> NoType, typeBits |-> 0, req |-> 0]

\* findMemoryType as called for the resource at pc
FindMemoryType ==
  /\ Running /\ Cur.op = "findMemoryType"
  /\ \E tb \in TypeBitsChoices :
       LET r == findMemoryType(memTypes, tb, Cur.req) IN
       /\ fmTypeBits' = tb
       /\ fmReq' = Cur.req
       /\ IF r # NoType
          THEN Advance /\ fmRes' = r
          ELSE Fail /\ fmRes' = NotFound(Cur.chk, ndebug)
  /\ UNCHANGED <<live, cmds, alloc, addr>>
  /\ UNCHANGED fragVars

\* vkAllocateMemory with ai.memoryTypeIndex = the index findMemoryType returned
Allocate ==
  /\ Running /\ Cur.op = "allocate"
  /\ alloc' = [type |-> fmRes, typeBits |-> fmTypeBits, req |-> fmReq]
  /\ \/ Advance /\ live' = live \cup {Cur.obj}
     \/ Fail /\ UNCHANGED live
  /\ UNCHANGED <<cmds, fmTypeBits, fmReq, fmRes, addr>>
  /\ UNCHANGED fragVars

Map ==
  /\ Running /\ Cur.op = "map"
  /\ (Advance \/ Fail)
  /\ UNCHANGED <<live, cmds>> /\ UnchangedFM /\ UNCHANGED addr
  /\ UNCHANGED fragVars

Unmap ==
  /\ Running /\ Cur.op = "unmap"
  /\ Advance
  /\ UNCHANGED <<live, cmds>> /\ UnchangedFM /\ UNCHANGED addr
  /\ UNCHANGED fragVars

Begin ==
  /\ Running /\ Cur.op = "begin"
  /\ (Advance \/ Fail)
  /\ UNCHANGED <<live, cmds>> /\ UnchangedFM /\ UNCHANGED addr
  /\ UNCHANGED fragVars

Record ==
  /\ Running /\ Cur.op = "record"
  /\ Advance
  /\ cmds' = Append(cmds, Cur.c)
  /\ UNCHANGED live /\ UnchangedFM /\ UNCHANGED addr
  /\ UNCHANGED fragVars

End ==
  /\ Running /\ Cur.op = "end"
  /\ (Advance \/ Fail)
  /\ UNCHANGED <<live, cmds>> /\ UnchangedFM /\ UNCHANGED addr
  /\ UNCHANGED fragVars

Submit ==
  /\ Running /\ Cur.op = "submit"
  /\ (Advance \/ Fail)
  /\ UNCHANGED <<live, cmds>> /\ UnchangedFM /\ UNCHANGED addr
  /\ UNCHANGED fragVars

Wait ==
  /\ Running /\ Cur.op = "wait"
  /\ (Advance \/ Fail)
  /\ UNCHANGED <<live, cmds>> /\ UnchangedFM /\ UNCHANGED addr
  /\ UNCHANGED fragVars

\* vkDestroy* / vkFreeMemory; destroyBuffer, destroyImage and destroyAccel skip
\* a null handle, and destroyBuffer ends with b = {}
Destroy ==
  /\ Running /\ Cur.op = "destroy"
  /\ Advance
  /\ live' = IF Cur.obj \in live THEN live \ ({Cur.obj} \cup Children(Cur.obj)) ELSE live
  /\ addr' = IF Cur.fn = "destroyBuffer" /\ Cur.obj[2] = "mem" /\ Cur.obj[1] \in DOMAIN addr
             THEN [addr EXCEPT ![Cur.obj[1]] = 0]
             ELSE addr
  /\ UNCHANGED cmds /\ UnchangedFM
  /\ UNCHANGED fragVars

Return0 ==
  /\ Running /\ Cur.op = "return0"
  /\ status' = "exit0"
  /\ trace' = Append(trace, "ok")
  /\ UNCHANGED <<prog, ndebug, memTypes, pc, diag, live, cmds>> /\ UnchangedFM /\ UNCHANGED addr
  /\ UNCHANGED fragVars

\* After a failure that an assert-free build stepped over, the handle or pointer
\* the failed statement should have produced is used by a later one: the run may
\* end there without any message.
Undefined ==
  /\ Running /\ ndebug
  /\ \E i \in DOMAIN trace : Failed(i) /\ Code[i].op \notin {"submit", "wait"}
  /\ status' = "abort"
  /\ UNCHANGED <<prog, ndebug, memTypes, pc, diag, live, cmds, trace>>
  /\ UnchangedFM /\ UNCHANGED addr
  /\ UNCHANGED fragVars

\* value-initialised VkStridedDeviceAddressRegionKHR r{}
NullRegion == [deviceAddress |-> 0, stride |-> 0, size |-> 0]

NoRegions == [rgen |-> NullRegion, miss |-> NullRegion, hit |-> NullRegion,
              call |-> NullRegion]

NoBytes == [o \in {} |-> 0]

\* Buffer b{}
NullBuffer == [size |-> 0, addr |-> 0, live |-> FALSE]

\* Accel out{}; buffer is the Buffer whose handle asci.buffer names
NullAccel == [as |-> FALSE, size |-> 0, buffer |-> NullBuffer, backing |-> NullBuffer,
              addr |-> 0]

\* VkAccelerationStructureInstanceKHR inst{}
NoInstance ==
  [transform |-> [r \in 0 .. 2 |-> [c \in 0 .. 3 |-> 0]],
   instanceCustomIndex |-> 0, mask |-> 0, instanceShaderBindingTableRecordOffset |-> 0,
   flags |-> {}, accelerationStructureReference |-> 0]

\* no builder has run; the geometry has n indices or boxes
NoBuilds(n) ==
  /\ count = n /\ cur = "blas" /\ primCount = 0
  /\ geom = [geometryType |-> "", flags |-> {}, data |-> 0, maxVertex |-> 0]
  /\ inst = NoInstance
  /\ sizes = [accelerationStructureSize |-> 0, buildScratchSize |-> 0]
  /\ ciSize = 0
  /\ accel = [a \in {"blas", "tlas"} |-> NullAccel]
  /\ scratch = NullBuffer
  /\ instBuf = [size |-> 0, addr |-> 0, live |-> FALSE, data |-> NoInstance]
  /\ recorded = << >>

\* Buffer{}, Image{} and Accel{}: every handle null
EmptyRecords ==
  [vbo |-> [buf |-> 0, mem |-> 0],
   outIm |-> [view |-> 0, img |-> 0, mem |-> 0],
   blas |-> [as |-> 0, backing |-> [buf |-> 0, mem |-> 0]]]

\* neither the cleanup nor the readback loop is running
IdleTail ==
  /\ held = EmptyRecords /\ destroyed = << >> /\ devCalls = << >>
  /\ pixelsRead = {} /\ printed = << >>

\* the fragments are not running
IdleSBT ==
  /\ handleSize = 0 /\ handleAlign = 0 /\ handleSizeAligned = 0
  /\ sbtSize = 0 /\ sbtMap = NoBytes /\ regions = NoRegions /\ traced = {}

IdleHits == counter = 0 /\ hitCount = 0 /\ hitsRead = {}

IdleSpv == fileExists = FALSE /\ fileSize = 0 /\ words = 0

Init ==
  /\ step = "main" /\ loopI = 0 /\ IdleSBT /\ IdleHits /\ IdleSpv /\ NoBuilds(0) /\ IdleTail
  /\ prog \in Programs
  /\ ndebug \in BOOLEAN
  /\ memTypes \in DeviceTables
  /\ pc = 1
  /\ status = "running"
  /\ live = {}
  /\ cmds = << >>
  /\ trace = << >>
  /\ diag = 0
  /\ fmTypeBits = 0
  /\ fmReq = 0
  /\ fmRes = NoType
  /\ alloc = NoAlloc
  /\ addr = [n \in Buffers(prog) |-> 0]

Next ==
  \/ Create \/ Call \/ Check \/ Host \/ LoadSpv \/ FindMemoryType \/ Allocate
  \/ Map \/ Unmap \/ Begin \/ Record \/ End \/ Submit \/ Wait \/ Destroy \/ Return0
  \/ Undefined

Spec == Init /\ [][Next]_vars

(***************************************************************************)
(* findMemoryType on its own: one call, for any table of at most MaxTypes  *)
(* memory types, any type mask and any requested property set.             *)
(***************************************************************************)
AllTables == UNION {[1 .. k -> AllProps] : k \in 0 .. MaxTypes}

FindMemoryTypeCall ==
  /\ status = "call"
  /\ LET r == findMemoryType(memTypes, fmTypeBits, fmReq)
         nf == NotFound(VK_CHECK(prog), ndebug) IN
     IF r # NoType
     THEN fmRes' = r /\ status' = "returned" /\ UNCHANGED diag
     ELSE /\ fmRes' = nf
          /\ status' = IF nf # NoType THEN "returned"
                       ELSE IF prog = "compute" THEN "abort" ELSE "exit1"
          /\ diag' = IF nf # NoType THEN diag ELSE 1
  /\ UNCHANGED <<prog, ndebug, memTypes, pc, live, cmds, trace, fmTypeBits, fmReq,
                 alloc, addr>>
  /\ UNCHANGED fragVars

InitFMT ==
  /\ step = "findMemoryType" /\ loopI = 0 /\ IdleSBT /\ IdleHits /\ IdleSpv /\ NoBuilds(0) /\ IdleTail
  /\ prog \in Programs
  /\ ndebug \in BOOLEAN
  /\ memTypes \in AllTables
  /\ pc = 1
  /\ status = "call"
  /\ live = {}
  /\ cmds = << >>
  /\ trace = << >>
  /\ diag = 0
  /\ fmTypeBits \in 0 .. (Pow2(MaxTypes + 1) - 1)
  /\ fmReq \in AllProps
  /\ fmRes = NoType
  /\ alloc = NoAlloc
  /\ addr = [n \in Buffers(prog) |-> 0]

NextFMT == FindMemoryTypeCall

SpecFMT == InitFMT /\ [][NextFMT]_vars

(***************************************************************************)
(* The shader binding table of the two ray-tracing samples, on its own:    *)
(* from the query of the handle size and alignment to the recording of     *)
(* vkCmdTraceRaysKHR, for any handle size up to MaxHandleSize and any      *)
(* power-of-two alignment up to 2^MaxAlignLog2 (Vulkan requires            *)
(* shaderGroupHandleAlignment to be a power of two).                       *)
(***************************************************************************)
\* uint32_t arithmetic wraps; the model keeps WordBits bits of it (TLC's own
\* integers end at 2^31 - 1)
UINT32_RANGE == Pow2(WordBits)
Wrap32(x) == x % UINT32_RANGE
Not32(x) == UINT32_RANGE - 1 - x

\* a rounding that forgets to add a - 1 and so rounds down
alignDown(v, a) == BitAnd(Wrap32(v), Not32(Wrap32(a - 1)))

\* auto alignUp = [&](uint32_t v, uint32_t a) { return (v + a - 1) & ~(a - 1); }
alignUp(v, a) == BitAnd(Wrap32(v + a - 1), Not32(Wrap32(a - 1)))

\* groups: 0 = raygen, 1 = miss, 2 = hit group
groups == << "raygen", "miss", "hit" >>
groupCount == Len(groups)

\* byte j of the packed block vkGetRayTracingShaderGroupHandlesKHR fills
handles == [j \in 0 .. (groupCount * handleSize - 1) |-> j]

\* a copy loop that packs the handles back to back
dstOffsetPacked(k) == Wrap32(k * handleSize)

\* sbtMap + i * handleSizeAligned
dstOffset(k) == Wrap32(k * handleSizeAligned)

\* handles.data() + i * handleSize
srcOffset(k) == Wrap32(k * handleSize)

\* std::memcpy(dst + dstOff, src + srcOff, n) on byte maps
memcpy(dst, dstOff, src, srcOff, n) ==
  [o \in DOMAIN dst \cup (dstOff .. (dstOff + n - 1)) |->
     IF o \in dstOff .. (dstOff + n - 1) THEN src[srcOff + (o - dstOff)] ELSE dst[o]]

\* a region that claims two records
RegionTwoRecords(base, g, stride) ==
  [deviceAddress |-> base + Wrap32(g * stride), stride |-> stride, size |-> 2 * stride]

\* a region that forgets the group's offset
RegionAtBase(base, g, stride) ==
  [deviceAddress |-> base, stride |-> stride, size |-> stride]

\* r.deviceAddress = sbt.addr + g * handleSizeAligned; r.stride = r.size = handleSizeAligned
Region(base, g, stride) ==
  [deviceAddress |-> base + Wrap32(g * stride), stride |-> stride, size |-> stride]

\* device addresses the SBT buffer may get
SbtBases == {256, 4096}

FragExit ==
  /\ status' = "exit1" /\ diag' = pc /\ step' = "exit"
  /\ UNCHANGED <<prog, ndebug, memTypes, pc, live, cmds, trace, fmTypeBits, fmReq,
                 fmRes, alloc, asVars, tailVars>>

FragStay == UNCHANGED <<prog, ndebug, memTypes, pc, status, live, cmds, trace, diag,
                        fmTypeBits, fmReq, fmRes, alloc, asVars, tailVars>>

AlignUpStep ==
  /\ step = "alignUp"
  /\ handleSizeAligned' = alignUp(handleSize, handleAlign)
  /\ step' = "handles"
  /\ FragStay
  /\ UNCHANGED <<loopI, addr, handleSize, handleAlign, sbtSize, sbtMap, regions, traced,
                 hitVars, spvVars>>

\* VK_CHECK(vkGetRayTracingShaderGroupHandlesKHR(...))
GetHandles ==
  /\ step = "handles"
  /\ \/ step' = "createSbt" /\ FragStay
     \/ FragExit
  /\ UNCHANGED <<loopI, addr, sbtVars, hitVars, spvVars>>

\* Buffer sbt = createBuffer(..., groupCount * (VkDeviceSize) handleSizeAligned, ...);
\* sbtMap = mapBuffer(dev, sbt)
CreateSbt ==
  /\ step = "createSbt"
  /\ \/ /\ \E base \in SbtBases : addr' = [addr EXCEPT !["sbt"] = base]
        /\ sbtSize' = groupCount * handleSizeAligned
        /\ loopI' = 0
        /\ step' = "copy"
        /\ FragStay
     \/ FragExit /\ UNCHANGED <<addr, sbtSize, loopI>>
  /\ UNCHANGED <<handleSize, handleAlign, handleSizeAligned, sbtMap, regions, traced,
                 hitVars, spvVars>>

\* for (i = 0; i < groupCount; i++) memcpy(sbtMap + i * handleSizeAligned, ...)
CopyHandle ==
  /\ step = "copy" /\ loopI < groupCount
  /\ sbtMap' = memcpy(sbtMap, dstOffset(loopI), handles, srcOffset(loopI), handleSize)
  /\ loopI' = Wrap32(loopI + 1)
  /\ FragStay
  /\ UNCHANGED <<step, addr, handleSize, handleAlign, handleSizeAligned, sbtSize, regions,
                 traced, hitVars, spvVars>>

\* the loop is left; unmapBuffer(dev, sbt)
UnmapSbt ==
  /\ step = "copy" /\ ~(loopI < groupCount)
  /\ step' = "regions"
  /\ FragStay
  /\ UNCHANGED <<loopI, addr, sbtVars, hitVars, spvVars>>

SetRegions ==
  /\ step = "regions"
  /\ regions' = [rgen |-> Region(addr["sbt"], 0, handleSizeAligned),
                 miss |-> Region(addr["sbt"], 1, handleSizeAligned),
                 hit |-> Region(addr["sbt"], 2, handleSizeAligned),
                 call |-> NullRegion]
  /\ step' = "trace"
  /\ FragStay
  /\ UNCHANGED <<loopI, addr, handleSize, handleAlign, handleSizeAligned, sbtSize, sbtMap,
                 traced, hitVars, spvVars>>

\* vkCmdTraceRaysKHR(cmd, &rgenRegion, &missRegion, &hitRegion, &callRegion, ...)
TraceRays ==
  /\ step = "trace"
  /\ traced' = {regions}
  /\ step' = "done"
  /\ FragStay
  /\ UNCHANGED <<loopI, addr, handleSize, handleAlign, handleSizeAligned, sbtSize, sbtMap,
                 regions, hitVars, spvVars>>

\* the state main is in when a fragment starts
MainIdle ==
  /\ ndebug \in BOOLEAN
  /\ memTypes = << DEVICE_LOCAL, HostVisCoh >>
  /\ pc = 1
  /\ status = "running"
  /\ live = {}
  /\ cmds = << >>
  /\ trace = << >>
  /\ diag = 0
  /\ fmTypeBits = 0
  /\ fmReq = 0
  /\ fmRes = NoType
  /\ alloc = NoAlloc
  /\ addr = [n \in Buffers(prog) |-> 0]

InitSBT ==
  /\ prog \in {"rt", "lsi"}
  /\ MainIdle
  /\ step = "alignUp" /\ loopI = 0
  /\ handleSize \in 1 .. MaxHandleSize
  /\ handleAlign \in {Pow2(k) : k \in 0 .. MaxAlignLog2}
  /\ handleSizeAligned = 0
  /\ sbtSize = 0 /\ sbtMap = NoBytes /\ regions = NoRegions /\ traced = {}
  /\ IdleHits /\ IdleSpv /\ NoBuilds(0) /\ IdleTail

NextSBT ==
  \/ AlignUpStep \/ GetHandles \/ CreateSbt \/ CopyHandle \/ UnmapSbt \/ SetRegions
  \/ TraceRays

SpecSBT == InitSBT /\ [][NextSBT]_vars

(***************************************************************************)
(* The readback of the segment-intersection sample, on its own: from the   *)
(* return of submitAndWait to the unmapping of the hit buffer, for the     *)
(* values the device may have left in the counter.                         *)
(***************************************************************************)
MAX_HITS == 1024

\* a clamp that was forgotten
keepFirst(a, b) == a

\* std::min(a, b)
std_min(a, b) == IF b < a THEN b ELSE a

\* counter values: none, few, around the capacity, and the largest uint32_t
CounterValues ==
  (0 .. MaxOverrun) \cup ((MAX_HITS - 1) .. (MAX_HITS + MaxOverrun))
  \cup {UINT32_RANGE - 1}

\* uint32_t hitCount = *(uint32_t *) mapBuffer(dev, bOutCounter); unmapBuffer(...)
ReadCounter ==
  /\ step = "readCounter"
  /\ \/ hitCount' = counter /\ step' = "clamp" /\ FragStay
     \/ FragExit /\ UNCHANGED hitCount
  /\ UNCHANGED <<loopI, addr, counter, hitsRead, sbtVars, spvVars>>

\* hitCount = std::min(hitCount, MAX_HITS)
ClampHitCount ==
  /\ step = "clamp"
  /\ hitCount' = std_min(hitCount, MAX_HITS)
  /\ step' = "mapHits"
  /\ FragStay
  /\ UNCHANGED <<loopI, addr, counter, hitsRead, sbtVars, spvVars>>

\* HitRecord *hits = (HitRecord *) mapBuffer(dev, bOutHits); i = 0
MapHits ==
  /\ step = "mapHits"
  /\ \/ loopI' = 0 /\ step' = "loop" /\ FragStay
     \/ FragExit /\ UNCHANGED loopI
  /\ UNCHANGED <<addr, hitVars, sbtVars, spvVars>>

\* for (i = 0; i < hitCount; i++) { auto &h = hits[i]; std::cout << ... }
ReadHit ==
  /\ step = "loop" /\ loopI < hitCount
  /\ hitsRead' = hitsRead \cup {loopI}
  /\ loopI' = Wrap32(loopI + 1)
  /\ FragStay
  /\ UNCHANGED <<step, addr, counter, hitCount, sbtVars, spvVars>>

\* the loop is left; unmapBuffer(dev, bOutHits)
UnmapHits ==
  /\ step = "loop" /\ ~(loopI < hitCount)
  /\ step' = "done"
  /\ FragStay
  /\ UNCHANGED <<loopI, addr, hitVars, sbtVars, spvVars>>

InitHits ==
  /\ prog = "lsi"
  /\ MainIdle
  /\ step = "readCounter" /\ loopI = 0
  /\ counter \in CounterValues
  /\ hitCount = 0 /\ hitsRead = {}
  /\ IdleSBT /\ IdleSpv /\ NoBuilds(0) /\ IdleTail

NextHits == ReadCounter \/ ClampHitCount \/ MapHits \/ ReadHit \/ UnmapHits

SpecHits == InitHits /\ [][NextHits]_vars

(***************************************************************************)
(* The shader loaders on their own: loadSpv of the two ray-tracing samples *)
(* and readSpirvU32 of the compute sample, followed by the creation of the *)
(* shader module, for a file that is absent or has any length up to        *)
(* MaxFileSize bytes.                                                      *)
(***************************************************************************)
\* assert(cond) failed in a build that keeps asserts
FragAbort ==
  /\ status' = "abort" /\ diag' = pc /\ step' = "exit"
  /\ UNCHANGED <<prog, ndebug, memTypes, pc, live, cmds, trace, fmTypeBits, fmReq,
                 fmRes, alloc, asVars, tailVars>>

\* the process dies of a fault, without a message
FragCrash ==
  /\ status' = "abort" /\ step' = "exit"
  /\ UNCHANGED <<prog, ndebug, memTypes, pc, diag, live, cmds, trace, fmTypeBits,
                 fmReq, fmRes, alloc, asVars, tailVars>>

\* std::ifstream f(path); if (!f) exit(1)   /   f = fopen(...); assert(f)
OpenFile ==
  /\ step = "open"
  /\ IF fileExists
     THEN step' = "size" /\ FragStay /\ UNCHANGED fileSize
     ELSE IF VK_CHECK(prog) = "exit" THEN FragExit /\ UNCHANGED fileSize
     ELSE IF ~ndebug THEN FragAbort /\ UNCHANGED fileSize
     ELSE \* fseek and ftell on a null FILE*: anything may follow
          \/ FragCrash /\ UNCHANGED fileSize
          \/ step' = "size" /\ FragStay /\ fileSize' \in 0 .. MaxFileSize
  /\ UNCHANGED <<loopI, addr, fileExists, words, sbtVars, hitVars>>

\* if (sz % 4) exit(1)   /   assert(sizeBytes % 4 == 0)
CheckSize ==
  /\ step = "size"
  /\ IF fileSize % 4 = 0 THEN step' = "read" /\ FragStay
     ELSE IF VK_CHECK(prog) = "exit" THEN FragExit
     ELSE IF ~ndebug THEN FragAbort
     ELSE step' = "read" /\ FragStay
  /\ UNCHANGED <<loopI, addr, spvVars, sbtVars, hitVars>>

\* std::vector<uint32_t> out(sz / 4); f.read(out.data(), sz); return out
\* reading more bytes than the vector holds may end the process
ReadWords ==
  /\ step = "read"
  /\ \/ words' = fileSize \div 4 /\ step' = "module" /\ FragStay
     \/ fileSize % 4 # 0 /\ FragCrash /\ UNCHANGED words
  /\ UNCHANGED <<loopI, addr, fileExists, fileSize, sbtVars, hitVars>>

\* VK_CHECK(vkCreateShaderModule(...)) with codeSize = words * 4
CreateModule ==
  /\ step = "module"
  /\ \/ step' = "created" /\ FragStay
     \/ IF VK_CHECK(prog) = "exit" THEN FragExit
        ELSE IF ~ndebug THEN FragAbort
        ELSE step' = "created" /\ FragStay
  /\ UNCHANGED <<loopI, addr, spvVars, sbtVars, hitVars>>

InitSpv ==
  /\ prog \in Programs
  /\ MainIdle
  /\ step = "open" /\ loopI = 0
  /\ fileExists \in BOOLEAN
  /\ fileSize \in (IF fileExists THEN 0 .. MaxFileSize ELSE {0})
  /\ words = 0
  /\ IdleSBT /\ IdleHits /\ NoBuilds(0) /\ IdleTail

NextSpv == OpenFile \/ CheckSize \/ ReadWords \/ CreateModule

SpecSpv == InitSpv /\ [][NextSpv]_vars

(***************************************************************************)
(* The acceleration-structure builds of the two ray-tracing samples, on    *)
(* their own: the creation of the buffer that holds the geometry, then the *)
(* BLAS builder and createTLAS_OneInstance as main calls them, with the    *)
(* sizes and addresses the driver supplies, for a geometry of 0 ..         *)
(* MaxCount indices (main_rt.cpp) or boxes (03_rt_lsi/main.cpp).           *)
(***************************************************************************)
\* the address vkGetBufferDeviceAddress or
\* vkGetAccelerationStructureDeviceAddressKHR hands out: never 0, one per object
AddressOf(n) ==
  LET objects == << "geometry", "blasBacking", "blasScratch", "blas", "instBuf",
                    "tlasBacking", "tlasScratch", "tlas" >> IN
  256 * (CHOOSE k \in DOMAIN objects : objects[k] = n)

\* the Buffer a successful createBuffer(dev, phys, size, ..., true) returns
Buffer(name, size) == [size |-> size, addr |-> AddressOf(name), live |-> TRUE]

\* how the vkCreateBuffer of createBuffer can end.  Vulkan requires ci.size > 0;
\* given 0 the call may succeed, report an error or fault
vkCreateBuffer(size) == IF size = 0 THEN {"ok", "error", "fault"} ELSE {"ok", "error"}

\* what vkGetAccelerationStructureBuildSizesKHR may report for n primitives:
\* nothing or the least sizes for none, more for more
BuildSizes(n) ==
  IF n = 0
  THEN {[accelerationStructureSize |-> a, buildScratchSize |-> s] :
          a \in {0, MinSize}, s \in {0, MinSize}}
  ELSE {[accelerationStructureSize |-> MinSize + 2 * n, buildScratchSize |-> MinSize + n]}

\* a geometry marked opaque, as in the line that is commented out
BLASGeometryOpaque(p) ==
  [geometryType |-> IF p = "rt" THEN "TRIANGLES" ELSE "AABBS", flags |-> {"OPAQUE"},
   data |-> AddressOf("geometry"), maxVertex |-> 0]

\* geom of createBLAS_Triangles (p = "rt") and createBLAS_AABBs (p = "lsi")
BLASGeometry(p) ==
  [geometryType |-> IF p = "rt" THEN "TRIANGLES" ELSE "AABBS", flags |-> {},
   data |-> AddressOf("geometry"), maxVertex |-> 0]

\* an instance that is visible to no ray
InstanceMasked(blasAddr) ==
  [NoInstance EXCEPT !.transform[0][0] = 1, !.transform[1][1] = 1, !.transform[2][2] = 1,
                     !.flags = {"TRIANGLE_FACING_CULL_DISABLE"},
                     !.accelerationStructureReference = blasAddr]

\* inst as createTLAS_OneInstance fills it in
Instance(blasAddr) ==
  [NoInstance EXCEPT !.transform[0][0] = 1, !.transform[1][1] = 1, !.transform[2][2] = 1,
                     !.instanceCustomIndex = 0,
                     !.mask = 255,
                     !.instanceShaderBindingTableRecordOffset = 0,
                     !.flags = {"TRIANGLE_FACING_CULL_DISABLE"},
                     !.accelerationStructureReference = blasAddr]

\* the statement ends normally ("ok"), in VK_CHECK's exit(1) ("error") or in a
\* fault of the process ("fault")
ASEnd(how, next) ==
  /\ step' = IF how = "ok" THEN next ELSE "exit"
  /\ status' = IF how = "ok" THEN status ELSE IF how = "error" THEN "exit1" ELSE "abort"
  /\ diag' = IF how = "error" THEN pc ELSE diag
  /\ UNCHANGED <<prog, ndebug, memTypes, pc, live, cmds, trace, fmTypeBits, fmReq, fmRes,
                 alloc, addr, loopI, sbtVars, hitVars, spvVars, tailVars>>

\* main: Buffer ibo = createBuffer(dev, phys, sizeof(uint32_t) * indices.size(), ...)
\*       Buffer bAABBs = makeHostSSBO(sizeof(VkAabbPositionsKHR) * aabbs.size())
CreateGeometryBuffer ==
  /\ step = "geometry"
  /\ ciSize' = (IF prog = "rt" THEN 4 ELSE 24) * count
  /\ \E how \in vkCreateBuffer(ciSize') : ASEnd(how, "describe")
  /\ UNCHANGED <<count, cur, primCount, geom, inst, sizes, accel, scratch, instBuf, recorded>>

\* the head of the BLAS builder: geom and primCount.  main passes vertices.size()
\* as vertexCount and indices.size(), which is the same number, as indexCount;
\* createBLAS_Triangles sets tri.maxVertex = vertexCount
DescribeBLAS ==
  /\ step = "describe" /\ cur = "blas"
  /\ geom' = [BLASGeometry(prog) EXCEPT !.maxVertex = IF prog = "rt" THEN count ELSE 0]
  /\ primCount' = IF prog = "rt" THEN count \div 3 ELSE count
  /\ ASEnd("ok", "sizes")
  /\ UNCHANGED <<count, cur, inst, sizes, ciSize, accel, scratch, instBuf, recorded>>

\* the head of createTLAS_OneInstance, called with blas.addr: inst, instBuf, the
\* copy of inst into instBuf, geom and primCount
DescribeTLAS ==
  /\ step = "describe" /\ cur = "tlas"
  /\ inst' = Instance(accel["blas"].addr)
  /\ ciSize' = 64
  /\ \E how \in vkCreateBuffer(ciSize') :
       /\ ASEnd(how, "sizes")
       /\ IF how = "ok"
          THEN /\ instBuf' = [size |-> ciSize', addr |-> AddressOf("instBuf"), live |-> TRUE,
                              data |-> inst']
               /\ geom' = [geometryType |-> "INSTANCES", flags |-> {},
                           data |-> AddressOf("instBuf"), maxVertex |-> 0]
               /\ primCount' = 1
          ELSE UNCHANGED <<instBuf, geom, primCount>>
  /\ UNCHANGED <<count, cur, sizes, accel, scratch, recorded>>

\* vkGetAccelerationStructureBuildSizesKHR(dev, ..., &bgi, &primCount, &sizes)
QuerySizes ==
  /\ step = "sizes"
  /\ sizes' \in BuildSizes(primCount)
  /\ ASEnd("ok", "backing")
  /\ UNCHANGED <<count, cur, primCount, geom, inst, ciSize, accel, scratch, instBuf, recorded>>

\* a backing buffer that is given the scratch size
CreateBackingScratchSized ==
  /\ step = "backing"
  /\ ciSize' = sizes.buildScratchSize
  /\ \E how \in vkCreateBuffer(ciSize') :
       /\ ASEnd(how, "createAS")
       /\ accel' = IF how = "ok"
                   THEN [accel EXCEPT ![cur].backing = Buffer(cur \o "Backing", ciSize')]
                   ELSE accel
  /\ UNCHANGED <<count, cur, primCount, geom, inst, sizes, scratch, instBuf, recorded>>

\* out.backing = createBuffer(dev, phys, sizes.accelerationStructureSize, ..., true)
CreateBacking ==
  /\ step = "backing"
  /\ ciSize' = sizes.accelerationStructureSize
  /\ \E how \in vkCreateBuffer(ciSize') :
       /\ ASEnd(how, "createAS")
       /\ accel' = IF how = "ok"
                   THEN [accel EXCEPT ![cur].backing = Buffer(cur \o "Backing", ciSize')]
                   ELSE accel
  /\ UNCHANGED <<count, cur, primCount, geom, inst, sizes, scratch, instBuf, recorded>>

\* asci.size = sizes.accelerationStructureSize; asci.buffer = out.backing.buf;
\* VK_CHECK(vkCreateAccelerationStructureKHR(dev, &asci, nullptr, &out.as))
CreateAS ==
  /\ step = "createAS"
  /\ \E how \in {"ok", "error"} :
       /\ ASEnd(how, "scratch")
       /\ accel' = IF how = "ok"
                   THEN [accel EXCEPT ![cur].as = TRUE,
                                      ![cur].size = sizes.accelerationStructureSize,
                                      ![cur].buffer = accel[cur].backing]
                   ELSE accel
  /\ UNCHANGED <<count, cur, primCount, geom, inst, sizes, ciSize, scratch, instBuf, recorded>>

\* Buffer scratch = createBuffer(dev, phys, sizes.buildScratchSize, ..., true)
CreateScratch ==
  /\ step = "scratch"
  /\ ciSize' = sizes.buildScratchSize
  /\ \E how \in vkCreateBuffer(ciSize') :
       /\ ASEnd(how, "build")
       /\ scratch' = IF how = "ok" THEN Buffer(cur \o "Scratch", ciSize') ELSE scratch
  /\ UNCHANGED <<count, cur, primCount, geom, inst, sizes, accel, instBuf, recorded>>

\* bgi.dstAccelerationStructure = out.as; bgi.scratchData.deviceAddress = scratch.addr;
\* range.primitiveCount = primCount; vkCmdBuildAccelerationStructuresKHR(cmd, 1, &bgi, &pRange)
RecordBuild ==
  /\ step = "build"
  /\ recorded' = Append(recorded,
       [kind |-> "build", dst |-> cur, dstExists |-> accel[cur].as, geom |-> geom,
        scratchData |-> scratch.addr, primitiveCount |-> primCount])
  /\ ASEnd("ok", "barrier")
  /\ UNCHANGED <<count, cur, primCount, geom, inst, sizes, ciSize, accel, scratch, instBuf>>

\* vkCmdPipelineBarrier(cmd, ...) / cmdASBuildBarrier(cmd)
RecordBarrier ==
  /\ step = "barrier"
  /\ recorded' = Append(recorded,
       [kind |-> "barrier", dst |-> cur, dstExists |-> accel[cur].as, geom |-> geom,
        scratchData |-> 0, primitiveCount |-> 0])
  /\ ASEnd("ok", IF cur = "blas" THEN "destroyScratch" ELSE "address")
  /\ UNCHANGED <<count, cur, primCount, geom, inst, sizes, ciSize, accel, scratch, instBuf>>

\* destroyBuffer(dev, scratch), in the BLAS builders only
DestroyScratch ==
  /\ step = "destroyScratch"
  /\ scratch' = NullBuffer
  /\ ASEnd("ok", "address")
  /\ UNCHANGED <<count, cur, primCount, geom, inst, sizes, ciSize, accel, instBuf, recorded>>

\* out.addr = getASAddress(dev, out.as); return out; main goes on with the TLAS
GetAddress ==
  /\ step = "address"
  /\ accel' = [accel EXCEPT ![cur].addr = AddressOf(cur)]
  /\ cur' = "tlas"
  /\ ASEnd("ok", IF cur = "blas" THEN "describe" ELSE "done")
  /\ UNCHANGED <<count, primCount, geom, inst, sizes, ciSize, scratch, instBuf, recorded>>

InitAS ==
  /\ prog \in {"rt", "lsi"}
  /\ MainIdle
  /\ step = "geometry" /\ loopI = 0
  /\ \E n \in 0 .. MaxCount : NoBuilds(n)
  /\ IdleTail
  /\ IdleSBT /\ IdleHits /\ IdleSpv

NextAS ==
  \/ CreateGeometryBuffer \/ DescribeBLAS \/ DescribeTLAS \/ QuerySizes \/ CreateBacking
  \/ CreateAS \/ CreateScratch \/ RecordBuild \/ RecordBarrier \/ DestroyScratch
  \/ GetAddress

SpecAS == InitAS /\ [][NextAS]_vars

(***************************************************************************)
(* The ray-tracing pipeline: shader stages and shader groups.              *)
(***************************************************************************)
\* VK_SHADER_UNUSED_KHR is ~0U
VK_SHADER_UNUSED_KHR == Not32(0)

\* VkRayTracingShaderGroupCreateInfoKHR g{VK_STRUCTURE_TYPE_...}: every member
\* but sType is zero, and VK_RAY_TRACING_SHADER_GROUP_TYPE_GENERAL_KHR is 0
NoGroup ==
  [type |-> "GENERAL", generalShader |-> 0, closestHitShader |-> 0, anyHitShader |-> 0,
   intersectionShader |-> 0]

\* rpci.pStages and rpci.pGroups of vkCreateRayTracingPipelinesKHR
rpci(p) ==
  LET U == VK_SHADER_UNUSED_KHR
      g0 == [NoGroup EXCEPT !.type = "GENERAL", !.generalShader = 0,
                            !.closestHitShader = U, !.anyHitShader = U,
                            !.intersectionShader = U]
      g1 == [NoGroup EXCEPT !.type = "GENERAL", !.generalShader = 1] IN
  IF p = "rt"
  THEN [stages |-> << "RAYGEN", "MISS", "CLOSEST_HIT", "ANY_HIT" >>,
        groups |-> << g0, g1,
                      [NoGroup EXCEPT !.type = "TRIANGLES_HIT_GROUP", !.generalShader = U,
                                      !.closestHitShader = 2, !.anyHitShader = 3,
                                      !.intersectionShader = U] >>]
  ELSE [stages |-> << "RAYGEN", "MISS", "INTERSECTION", "ANY_HIT", "CLOSEST_HIT" >>,
        groups |-> << g0, g1,
                      [NoGroup EXCEPT !.type = "PROCEDURAL_HIT_GROUP", !.generalShader = U,
                                      !.intersectionShader = 2, !.anyHitShader = 3,
                                      !.closestHitShader = 4] >>]

(***************************************************************************)
(* The descriptor set of the two ray-tracing samples: the bindings of the  *)
(* layout, the sizes of the pool and the writes of vkUpdateDescriptorSets. *)
(***************************************************************************)
\* a set whose last binding is never written
DescriptorsLastUnwritten(p) ==
  LET Write(b, ty, res) == [dstBinding |-> b, descriptorType |-> ty,
                            descriptorCount |-> 1, resource |-> res]
      AS == "ACCELERATION_STRUCTURE"
      SB == "STORAGE_BUFFER" IN
  IF p = "rt"
  THEN [bindings |-> << AS, "STORAGE_IMAGE" >>,
        maxSets |-> 1,
        poolSizes |-> << [type |-> AS, descriptorCount |-> 1],
                         [type |-> "STORAGE_IMAGE", descriptorCount |-> 1] >>,
        writes |-> << Write(0, AS, <<"tlas", "as">>) >>]
  ELSE [bindings |-> << AS, SB, SB, SB, SB, SB, SB >>,
        maxSets |-> 1,
        poolSizes |-> << [type |-> AS, descriptorCount |-> 1],
                         [type |-> SB, descriptorCount |-> 6] >>,
        writes |-> << Write(0, AS, <<"tlas", "as">>),
                      Write(1, SB, <<"bQueryPts", "buf">>),
                      Write(2, SB, <<"bQueryEdge", "buf">>),
                      Write(3, SB, <<"bBasePts", "buf">>),
                      Write(4, SB, <<"bBaseEdge", "buf">>),
                      Write(5, SB, <<"bOutHits", "buf">>) >>]

\* bindings[k + 1] is the descriptorType of binding k
Descriptors(p) ==
  LET Write(b, ty, res) == [dstBinding |-> b, descriptorType |-> ty,
                            descriptorCount |-> 1, resource |-> res]
      AS == "ACCELERATION_STRUCTURE"
      SB == "STORAGE_BUFFER" IN
  IF p = "rt"
  THEN [bindings |-> << AS, "STORAGE_IMAGE" >>,
        maxSets |-> 1,
        poolSizes |-> << [type |-> AS, descriptorCount |-> 1],
                         [type |-> "STORAGE_IMAGE", descriptorCount |-> 1] >>,
        writes |-> << Write(0, AS, <<"tlas", "as">>),
                      Write(1, "STORAGE_IMAGE", <<"outIm", "view">>) >>]
  ELSE [bindings |-> << AS, SB, SB, SB, SB, SB, SB >>,
        maxSets |-> 1,
        poolSizes |-> << [type |-> AS, descriptorCount |-> 1],
                         [type |-> SB, descriptorCount |-> 6] >>,
        writes |-> << Write(0, AS, <<"tlas", "as">>),
                      Write(1, SB, <<"bQueryPts", "buf">>),
                      Write(2, SB, <<"bQueryEdge", "buf">>),
                      Write(3, SB, <<"bBasePts", "buf">>),
                      Write(4, SB, <<"bBaseEdge", "buf">>),
                      Write(5, SB, <<"bOutHits", "buf">>),
                      Write(6, SB, <<"bOutCounter", "buf">>) >>]

(***************************************************************************)
(* Push constants: the range the pipeline layout declares (pcr) and the    *)
(* arguments of vkCmdPushConstants.  sizeof(Push) is the sum of the        *)
(* 4-byte members of struct Push: rayCount, originBase[3] and dir[3] in    *)
(* the triangle sample; queryEdgeCount, maxOutHits, pad0 and pad1 in the   *)
(* segment-intersection sample.                                            *)
(***************************************************************************)
PushConstants(p) ==
  LET sizeofPush == IF p = "rt" THEN 4 * (1 + 3 + 3) ELSE 4 * 4 IN
  IF p = "rt"
  THEN [pcr |-> [stageFlags |-> {"RAYGEN", "MISS", "CLOSEST_HIT", "ANY_HIT"},
                 offset |-> 0, size |-> sizeofPush],
        cmd |-> [stageFlags |-> {"RAYGEN"}, offset |-> 0, size |-> sizeofPush]]
  ELSE [pcr |-> [stageFlags |-> {"RAYGEN", "ANY_HIT", "INTERSECTION"},
                 offset |-> 0, size |-> sizeofPush],
        cmd |-> [stageFlags |-> {"RAYGEN", "ANY_HIT", "INTERSECTION"},
                 offset |-> 0, size |-> sizeofPush]]

(***************************************************************************)
(* The destroy helpers on their own: destroyBuffer, destroyImage and       *)
(* destroyAccel called in any order and any number of times, up to         *)
(* MaxDestroys calls, on a Buffer, an Image and an Accel that are each     *)
(* either as their create helper returned them or still empty.  A handle   *)
(* is a number, 0 for VK_NULL_HANDLE.  The segment-intersection sample has *)
(* no Image and no destroyImage.                                           *)
(***************************************************************************)
\* the records as createBuffer, createStorageImageRGBA32F and the BLAS builder
\* return them: every handle distinct and not null
CreatedRecords ==
  [vbo |-> [buf |-> 1, mem |-> 2],
   outIm |-> [view |-> 3, img |-> 4, mem |-> 5],
   blas |-> [as |-> 6, backing |-> [buf |-> 7, mem |-> 8]]]

\* if (h) fn(dev, h, nullptr);
IfHandle(fn, h) == IF h # 0 THEN << [fn |-> fn, h |-> h] >> ELSE << >>

\* a destroyBuffer without its last line, b = {}
destroyBufferKeepsRecord(b) ==
  [dev |-> IfHandle("vkDestroyBuffer", b.buf) \o IfHandle("vkFreeMemory", b.mem),
   out |-> b]

\* destroyBuffer(dev, b): the device calls it makes and what it leaves in b
destroyBufferOn(b) ==
  [dev |-> IfHandle("vkDestroyBuffer", b.buf) \o IfHandle("vkFreeMemory", b.mem),
   out |-> EmptyRecords.vbo]

\* destroyImage(dev, im)
destroyImageOn(im) ==
  [dev |-> IfHandle("vkDestroyImageView", im.view) \o IfHandle("vkDestroyImage", im.img)
           \o IfHandle("vkFreeMemory", im.mem),
   out |-> EmptyRecords.outIm]

\* destroyAccel(dev, a): destroyBuffer(dev, a.backing) inside, then a = {}
destroyAccelOn(a) ==
  [dev |-> IfHandle("vkDestroyAccelerationStructureKHR", a.as)
           \o destroyBufferOn(a.backing).dev,
   out |-> [as |-> 0, backing |-> destroyBufferOn(a.backing).out]]

\* one call of a destroy helper on the record r, with what the helper returns
CallDestroy(r, res) ==
  /\ step = "destroy" /\ Len(destroyed) < MaxDestroys
  /\ held' = [held EXCEPT ![r] = res.out]
  /\ devCalls' = devCalls \o res.dev
  /\ destroyed' = Append(destroyed, r)
  /\ UNCHANGED <<mainVars, step, loopI, sbtVars, hitVars, spvVars, asVars, pixelsRead,
                 printed>>

DestroyBufferCall == CallDestroy("vbo", destroyBufferOn(held.vbo))

DestroyImageCall == prog = "rt" /\ CallDestroy("outIm", destroyImageOn(held.outIm))

DestroyAccelCall == CallDestroy("blas", destroyAccelOn(held.blas))

InitDestroy ==
  /\ prog \in {"rt", "lsi"}
  /\ MainIdle
  /\ step = "destroy" /\ loopI = 0
  /\ held \in [vbo : {EmptyRecords.vbo, CreatedRecords.vbo},
               outIm : {EmptyRecords.outIm}
                       \cup (IF prog = "rt" THEN {CreatedRecords.outIm} ELSE {}),
               blas : {EmptyRecords.blas, CreatedRecords.blas}]
  /\ destroyed = << >> /\ devCalls = << >>
  /\ pixelsRead = {} /\ printed = << >>
  /\ IdleSBT /\ IdleHits /\ IdleSpv /\ NoBuilds(0)

NextDestroy == DestroyBufferCall \/ DestroyImageCall \/ DestroyAccelCall

SpecDestroy == InitDestroy /\ [][NextDestroy]_vars

(***************************************************************************)
(* The readback of the triangle sample on its own: after submitAndWait,    *)
(* main maps the readback buffer, prints one pixel of four floats for each *)
(* of RAY_COUNT rays and unmaps the buffer.  Offsets and sizes are counted *)
(* in floats.  What the device left in the fourth float of a pixel, the    *)
(* ray's hit count, is any number up to MaxHitsPerRay.                     *)
(***************************************************************************)
\* const uint32_t W = 5, H = 1;
W == 5
H == 1
\* const uint32_t RAY_COUNT = 5;
RAY_COUNT == 5

\* push.rayCount, the launch size of vkCmdTraceRaysKHR, and readbackSize
\* (W * H * pixelStride, with pixelStride = sizeof(float) * 4) in floats
TraceSetup ==
  [rayCount |-> RAY_COUNT, width |-> W, height |-> H, depth |-> 1,
   readbackFloats |-> W * H * 4]

\* a pixel address that applies the byte stride to the float pointer
atByteStride(x, y) == (y * W + x) * 16

\* the lambda at: data + (y * W + x) * 4
at(x, y) == (y * W + x) * 4

\* float *data = (float *) mapBuffer(dev, readback)
MapReadback ==
  /\ step = "mapReadback"
  /\ \/ step' = "print" /\ UNCHANGED <<status, diag>>
     \/ step' = "exit" /\ status' = "exit1" /\ diag' = pc
  /\ UNCHANGED <<prog, ndebug, memTypes, pc, live, cmds, trace, fmTypeBits, fmReq, fmRes,
                 alloc, addr, loopI, sbtVars, hitVars, spvVars, asVars, tailVars>>

\* one turn of for (uint32_t i = 0; i < RAY_COUNT; i++): p = at(i, 0) and the
\* reads of p[0] .. p[3]; a read past the end of the mapping may fault
PrintRay ==
  /\ step = "print" /\ loopI < RAY_COUNT
  /\ LET p == at(loopI, 0)
         reads == {p + k : k \in 0 .. 3} IN
     /\ pixelsRead' = pixelsRead \cup reads
     /\ \E hits \in 0 .. MaxHitsPerRay : printed' = Append(printed, hits)
     /\ \/ /\ loopI' = loopI + 1
           /\ UNCHANGED <<step, status>>
        \/ /\ \E o \in reads : o >= TraceSetup.readbackFloats
           /\ step' = "exit" /\ status' = "abort"
           /\ UNCHANGED loopI
  /\ UNCHANGED <<prog, ndebug, memTypes, pc, diag, live, cmds, trace, fmTypeBits, fmReq,
                 fmRes, alloc, addr, sbtVars, hitVars, spvVars, asVars, held, destroyed,
                 devCalls>>

\* unmapBuffer(dev, readback)
UnmapReadback ==
  /\ step = "print" /\ loopI >= RAY_COUNT
  /\ step' = "cleanup"
  /\ UNCHANGED <<mainVars, loopI, sbtVars, hitVars, spvVars, asVars, tailVars>>

InitPixels ==
  /\ prog = "rt"
  /\ MainIdle
  /\ step = "mapReadback" /\ loopI = 0
  /\ IdleSBT /\ IdleHits /\ IdleSpv /\ NoBuilds(0) /\ IdleTail

NextPixels == MapReadback \/ PrintRay \/ UnmapReadback

SpecPixels == InitPixels /\ [][NextPixels]_vars

(***************************************************************************)
(* Vocabulary of the properties.  Statement i of Code has been executed    *)
(* exactly when i \in DOMAIN trace; trace[i] is its outcome.               *)
(***************************************************************************)
Ran(i) == i \in DOMAIN trace
Succeeded(i) == i \in DOMAIN trace /\ trace[i] = "ok"
Count(op) == Cardinality({i \in DOMAIN trace : Code[i].op = op})

\* vkQueueWaitIdle has returned before statement i starts
WaitReturnedBefore(i) == \E w \in 1 .. (i - 1) : Ran(w) /\ Code[w].op = "wait"
WaitDoneBefore(i) == \E w \in 1 .. (i - 1) : Succeeded(w) /\ Code[w].op = "wait"
BeginBefore(i) == \E b \in 1 .. (i - 1) : Ran(b) /\ Code[b].op = "begin"

\* buffers referenced only by an acceleration-structure build
BuildOnly == {"blasScratch", "tlasScratch", "instBuf"}
Builders == {"createBLAS_Triangles", "createBLAS_AABBs", "createTLAS_OneInstance"}
\* buffers the device writes results to and the host reads
ResultBuffers == {"readback", "bOutHits", "bOutCounter", "Out"}

IsDestroyOf(i, names) == Code[i].op = "destroy" /\ Code[i].obj[1] \in names
IsMapOf(i, names) == Code[i].op = "map" /\ Code[i].obj[1] \in names
IsHostRead(i, names) ==
  Code[i].op = "host" /\ Code[i].arg = "read" /\ Code[i].obj[1] \in names

(***************************************************************************)
(* C1: no buffer referenced only by an acceleration-structure build (BLAS  *)
(* scratch, TLAS scratch, TLAS instance buffer) is destroyed or freed      *)
(* before submitAndWait has returned.                                      *)
(***************************************************************************)
C1_BuildBuffersOutliveSubmit ==
  \A i \in DOMAIN trace : IsDestroyOf(i, BuildOnly) => WaitDoneBefore(i)

(***************************************************************************)
(* C2 as stated: the host maps a result buffer only after the              *)
(* submit-and-wait call has returned.                                      *)
(***************************************************************************)
C2_NoResultMapBeforeWait ==
  \A i \in DOMAIN trace : IsMapOf(i, ResultBuffers) => WaitReturnedBefore(i)

(***************************************************************************)
(* C2 amended: the host maps a result buffer to read it, and reads it,     *)
(* only after the submit-and-wait call has returned; the only mapping of a *)
(* result buffer before that is the one that writes the zero into the hit  *)
(* counter, before the command buffer begins recording, and it is unmapped *)
(* right after the write.                                                  *)
(***************************************************************************)
C2_ResultsReadOnlyAfterWait ==
  \A i \in DOMAIN trace :
    /\ IsHostRead(i, ResultBuffers) => WaitReturnedBefore(i)
    /\ (IsMapOf(i, ResultBuffers) /\ ~WaitReturnedBefore(i)) =>
         /\ Code[i].obj[1] = "bOutCounter"
         /\ ~BeginBefore(i)
         /\ Code[i + 1].op = "host" /\ Code[i + 1].arg = "write"
         /\ Code[i + 1].obj = Code[i].obj
         /\ Code[i + 2].op = "unmap" /\ Code[i + 2].obj = Code[i].obj

\* the counter was zeroed before the submission and both result buffers of the
\* segment-intersection sample were mapped and read after the wait
C2_Witness ==
  /\ prog = "lsi"
  /\ \E i \in DOMAIN trace : IsMapOf(i, {"bOutCounter"}) /\ ~WaitReturnedBefore(i)
  /\ \E i \in DOMAIN trace : IsHostRead(i, {"bOutHits"}) /\ WaitReturnedBefore(i)

(***************************************************************************)
(* C3: where the trace dispatch is recorded, the TLAS and the BLAS it      *)
(* references each have their build command recorded earlier in the same   *)
(* command sequence, followed by a memory barrier from the                 *)
(* acceleration-structure-build stage / acceleration-structure-write       *)
(* access to the ray-tracing-shader stage / acceleration-structure-read    *)
(* access.                                                                 *)
(***************************************************************************)
\* the TLAS bound at binding 0 and the BLAS its one instance references
Reachable == {"tlas", "blas"}

IsBuildToTraceBarrier(c) ==
  /\ c.kind = "barrier"
  /\ "ACCELERATION_STRUCTURE_BUILD" \in c.srcStage
  /\ "ACCELERATION_STRUCTURE_WRITE" \in c.srcAccess
  /\ "RAY_TRACING_SHADER" \in c.dstStage
  /\ "ACCELERATION_STRUCTURE_READ" \in c.dstAccess

C3_BuildsBarrieredBeforeTrace ==
  \A k \in DOMAIN cmds :
    cmds[k].kind = "traceRays" =>
      \A a \in Reachable :
        \E i \in 1 .. (k - 1) :
          /\ cmds[i].kind = "build" /\ cmds[i].obj = a
          /\ \E j \in (i + 1) .. (k - 1) : IsBuildToTraceBarrier(cmds[j])

C3_Witness == \E k \in DOMAIN cmds : cmds[k].kind = "traceRays"

(***************************************************************************)
(* C4: an invocation begins the command buffer once, ends it once, submits *)
(* it once to the one queue and then waits for the queue; there is never a *)
(* second begin or submit, and the statement after a submit is the wait.   *)
(***************************************************************************)
C4_SingleShot ==
  /\ \A op \in {"begin", "end", "submit", "wait"} : Count(op) <= 1
  /\ status = "exit0" =>
       /\ \A op \in {"begin", "end", "submit", "wait"} : Count(op) = 1
       /\ Cardinality({i \in DOMAIN trace : Code[i].obj = <<"queue", "h">>
                                            /\ Code[i].op = "host"}) = 1
  /\ \A i \in DOMAIN trace :
       /\ Code[i].op = "end" => BeginBefore(i)
       /\ Code[i].op = "submit" => \E e \in 1 .. (i - 1) : Code[e].op = "end"
       /\ Code[i].op = "wait" => Code[i - 1].op = "submit"
       /\ (Code[i].op = "submit" /\ Ran(i + 1)) => Code[i + 1].op = "wait"
       /\ (Code[i].op = "submit" /\ status = "exit0") => Ran(i + 1)

C4_Witness == status = "exit0" /\ Count("submit") = 1 /\ Count("wait") = 1

(***************************************************************************)
(* C5: every transient resource created while recording (BLAS scratch,     *)
(* TLAS scratch, TLAS instance buffer) is released by main after the wait  *)
(* returns: on every successful run of the two ray-tracing samples it has  *)
(* been released, and no release happens inside a builder function.        *)
(***************************************************************************)
C5_TransientsReleasedByMainAfterWait ==
  /\ (status = "exit0" /\ prog \in {"rt", "lsi"}) =>
       \A n \in BuildOnly : <<n, "buf">> \notin live /\ <<n, "mem">> \notin live
  /\ \A i \in DOMAIN trace :
       IsDestroyOf(i, BuildOnly) => Code[i].top \notin Builders /\ WaitDoneBefore(i)

(***************************************************************************)
(* C6: when the device is destroyed, every object created from it has      *)
(* already been destroyed, and the instance is destroyed after the device. *)
(***************************************************************************)
Destroyed(obj) == \E i \in DOMAIN trace : Code[i].op = "destroy" /\ Code[i].obj = obj

C6_DeviceTornDownLast ==
  /\ Destroyed(<<"dev", "h">>) => live \subseteq {<<"instance", "h">>}
  /\ Destroyed(<<"instance", "h">>) => Destroyed(<<"dev", "h">>)

(***************************************************************************)
(* C7: on every exit path that ends the run because of an error, every     *)
(* resource created earlier in the run has been released when the process  *)
(* exits.                                                                  *)
(***************************************************************************)
C7_ErrorExitReleasesAll == status \in {"exit1", "abort"} => live = {}

(***************************************************************************)
(* C8: whenever a step reports failure, the run is aborted at that step    *)
(* with a diagnostic that identifies it, and no later step is executed, in *)
(* all three programs and in every build configuration.                    *)
(***************************************************************************)
C8_FailureAbortsAtTheStep ==
  \A i \in DOMAIN trace :
    trace[i] = "fail" =>
      /\ i = Len(trace)
      /\ status \in {"exit1", "abort"}
      /\ diag = i

(***************************************************************************)
(* C9: for every type mask, requested property set and table of memory     *)
(* types, findMemoryType returns the smallest index i such that bit i of   *)
(* the mask is set and the flags of type i include the request, whenever   *)
(* such an index exists.                                                   *)
(***************************************************************************)
Bit(n, b) == (n \div Pow2(b)) % 2 = 1

Suitable(table, typeBits, req, i) ==
  /\ i \in 0 .. (Len(table) - 1)
  /\ Bit(typeBits, i)
  /\ \A b \in 0 .. 2 : Bit(req, b) => Bit(table[i + 1], b)

SuitableSet(table, typeBits, req) ==
  {i \in 0 .. (Len(table) - 1) : Suitable(table, typeBits, req, i)}

C9_FirstSuitableIndex ==
  (status # "call" /\ SuitableSet(memTypes, fmTypeBits, fmReq) # {}) =>
    /\ status = "returned"
    /\ fmRes \in SuitableSet(memTypes, fmTypeBits, fmReq)
    /\ \A j \in SuitableSet(memTypes, fmTypeBits, fmReq) : fmRes <= j

\* a call that had to skip an unsuitable type 0 and returned a later index
C9_Witness ==
  /\ status = "returned"
  /\ fmRes > 0
  /\ fmRes \in SuitableSet(memTypes, fmTypeBits, fmReq)

(***************************************************************************)
(* C10: when no memory type is suitable, findMemoryType ends the run with  *)
(* a fatal error and returns no index, so no allocation is attempted with  *)
(* an unsuitable memory type.                                              *)
(***************************************************************************)
C10_NoUnsuitableAllocation ==
  /\ \A i \in DOMAIN trace :
       (Code[i].op = "findMemoryType" /\ trace[i] = "fail") =>
         i = Len(trace) /\ status \in {"exit1", "abort"}
  /\ alloc.type # NoType =>
       Suitable(memTypes, alloc.typeBits, alloc.req, alloc.type)

(***************************************************************************)
(* C11: for every buffer created by createBuffer, the address capability   *)
(* flag at vkCreateBuffer, the address-enable flag at vkAllocateMemory and *)
(* the retrieval of the device address are present exactly when            *)
(* deviceAddress was requested; the address is retrieved once, after the   *)
(* memory was bound; Buffer.addr then changes only when the buffer is      *)
(* destroyed; a buffer created without the request keeps address 0.        *)
(***************************************************************************)
IsAddrQuery(i, n) ==
  Code[i].fn = "createBuffer" /\ Code[i].op = "host" /\ Code[i].obj = <<n, "addr">>

Requested(n) ==
  \E i \in DOMAIN Code : Code[i].fn = "createBuffer" /\ Code[i].obj[1] = n /\ Code[i].da

AddressFlagsAgree ==
  \A i \in DOMAIN trace :
    Code[i].fn = "createBuffer" =>
      LET n == Code[i].obj[1] IN
      /\ Code[i].op = "create" => ("SHADER_DEVICE_ADDRESS" \in Code[i].usage <=> Code[i].da)
      /\ Code[i].op = "allocate" => (Code[i].arg = "DEVICE_ADDRESS" <=> Code[i].da)
      /\ IsAddrQuery(i, n) =>
           /\ Code[i].da
           /\ \E j \in 1 .. (i - 1) : Code[j].obj = <<n, "bind">> /\ Succeeded(j)
           /\ addr[n] # 0 \/ Destroyed(<<n, "mem">>)
      /\ (Code[i].obj = <<n, "bind">> /\ Succeeded(i) /\ Ran(i + 1)) =>
           (IsAddrQuery(i + 1, n) <=> Code[i].da)

AddressQueriedOnce ==
  \A n \in DOMAIN addr :
    /\ Cardinality({i \in DOMAIN trace : IsAddrQuery(i, n)}) <= 1
    /\ addr[n] # 0 => \E i \in DOMAIN trace : IsAddrQuery(i, n)
    /\ ~Requested(n) => addr[n] = 0

AddressStable ==
  \A n \in DOMAIN addr :
    (addr[n] # 0 /\ addr'[n] # addr[n]) =>
      (Cur.op = "destroy" /\ Cur.obj = <<n, "mem">> /\ addr'[n] = 0)

C11_DeviceAddressOptIn ==
  /\ [](AddressFlagsAgree /\ AddressQueriedOnce)
  /\ [][AddressStable]_vars

\* one buffer holds its device address while another, created without the
\* request, is alive with address 0
C11_Witness ==
  \E n, m \in DOMAIN addr :
    /\ addr[n] # 0
    /\ ~Requested(m) /\ <<m, "mem">> \in live /\ addr[m] = 0

(***************************************************************************)
(* C12: for every handle size and handle alignment the device reports, the *)
(* stride computed for the shader binding table is the least multiple of   *)
(* handleAlign that is greater than or equal to handleSize, so every       *)
(* record is aligned and at least handleSize bytes long.                   *)
(***************************************************************************)
C12_StrideIsRoundUp ==
  step # "alignUp" =>
    /\ handleSizeAligned % handleAlign = 0
    /\ handleSizeAligned >= handleSize
    /\ handleSizeAligned - handleSize < handleAlign

\* a handle size that is not a multiple of the alignment was rounded up
C12_Witness == step = "handles" /\ handleSizeAligned > handleSize

(***************************************************************************)
(* C13: after the SBT is filled, for every group g the handleSize bytes at *)
(* offset g * stride equal the bytes of handle g of the packed block; copy *)
(* g writes only inside [g * stride, g * stride + handleSize), so no slot  *)
(* padding and no other slot is touched, and every write lies inside the   *)
(* groupCount * stride bytes of the buffer.                                *)
(***************************************************************************)
SlotBytes(g) == (g * handleSizeAligned) .. (g * handleSizeAligned + handleSize - 1)

C13_HandlesInAlignedSlots ==
  /\ step \in {"copy", "regions", "trace", "done"} =>
       /\ sbtSize = groupCount * handleSizeAligned
       /\ DOMAIN sbtMap = UNION {SlotBytes(g) : g \in 0 .. (loopI - 1)}
       /\ DOMAIN sbtMap \subseteq 0 .. (sbtSize - 1)
       /\ \A g \in 0 .. (loopI - 1) : \A k \in 0 .. (handleSize - 1) :
            sbtMap[g * handleSizeAligned + k] = handles[g * handleSize + k]
  /\ step \in {"regions", "trace", "done"} => loopI = groupCount

\* every handle was copied into a table whose slots have padding
C13_Witness ==
  /\ step = "regions" /\ loopI = groupCount
  /\ handleSizeAligned > handleSize
  /\ DOMAIN sbtMap # {}

(***************************************************************************)
(* C14: at dispatch the raygen region describes exactly one record (size   *)
(* equal to stride), the miss and hit regions one record each, and the     *)
(* unused callable region has size 0, stride 0 and a null address.         *)
(***************************************************************************)
OneRecord(r) == r.stride > 0 /\ r.size = r.stride

C14_RegionShapes ==
  \A r \in traced :
    /\ OneRecord(r.rgen) /\ OneRecord(r.miss) /\ OneRecord(r.hit)
    /\ r.call.size = 0 /\ r.call.stride = 0 /\ r.call.deviceAddress = 0

C14_Witness == step = "done" /\ \E r \in traced : r.rgen.size = handleSizeAligned

(***************************************************************************)
(* C15: group indices are positional: the region passed at dispatch for    *)
(* the group at position g of the group list starts at the SBT base        *)
(* address + g * stride; the three regions are pairwise disjoint and each  *)
(* lies inside the SBT buffer.                                             *)
(***************************************************************************)
RegionOf(r, name) ==
  IF name = "raygen" THEN r.rgen ELSE IF name = "miss" THEN r.miss ELSE r.hit

Bytes(r) == r.deviceAddress .. (r.deviceAddress + r.size - 1)

C15_RegionsPositional ==
  \A r \in traced :
    /\ \A g \in DOMAIN groups :
         /\ RegionOf(r, groups[g]).deviceAddress = addr["sbt"] + (g - 1) * handleSizeAligned
         /\ Bytes(RegionOf(r, groups[g])) \subseteq addr["sbt"] .. (addr["sbt"] + sbtSize - 1)
    /\ \A g, h \in DOMAIN groups :
         g # h => Bytes(RegionOf(r, groups[g])) \cap Bytes(RegionOf(r, groups[h])) = {}

\* the hit region of a recorded dispatch ends exactly where the buffer ends
C15_Witness ==
  \E r \in traced :
    /\ r.hit.deviceAddress = addr["sbt"] + 2 * handleSizeAligned
    /\ r.hit.deviceAddress + r.hit.size = addr["sbt"] + sbtSize

(***************************************************************************)
(* C16: the shader binding table is built once and immutable thereafter:   *)
(* once the host has written the handles and unmapped the SBT buffer, the  *)
(* buffer is never mapped or written again, and it is destroyed only after *)
(* the submit-and-wait of the dispatch that uses it has returned.          *)
(***************************************************************************)
IsSbtWrite(i) ==
  Code[i].op = "host" /\ Code[i].arg = "write" /\ Code[i].obj[1] = "sbt"

SbtUnmappedBefore(i) ==
  \E u \in 1 .. (i - 1) : Ran(u) /\ Code[u].op = "unmap" /\ Code[u].obj[1] = "sbt"

C16_SbtImmutable ==
  /\ Cardinality({i \in DOMAIN trace :
                    Code[i].op = "create" /\ Code[i].obj = <<"sbt", "buf">>}) <= 1
  /\ \A i \in DOMAIN trace :
       /\ (IsMapOf(i, {"sbt"}) \/ IsSbtWrite(i)) => ~SbtUnmappedBefore(i)
       /\ IsDestroyOf(i, {"sbt"}) => WaitDoneBefore(i)

\* a finished run: the table was written once and destroyed after the wait
C16_Witness ==
  /\ status = "exit0" /\ prog \in {"rt", "lsi"}
  /\ \E i \in DOMAIN trace : IsSbtWrite(i)
  /\ Destroyed(<<"sbt", "mem">>)

(***************************************************************************)
(* C17: for every counter value the device may have written, also one      *)
(* larger than the capacity, the host reads exactly min(counter, capacity) *)
(* hit records after the wait and never reads a record at an index greater *)
(* than or equal to the capacity.                                          *)
(***************************************************************************)
C17_ReadsClampedToCapacity ==
  /\ hitsRead \subseteq 0 .. (MAX_HITS - 1)
  /\ step = "done" =>
       hitsRead = 0 .. ((IF counter < MAX_HITS THEN counter ELSE MAX_HITS) - 1)

\* the device counted more hits than the buffer holds and the host read them all
C17_Witness ==
  step = "done" /\ counter > MAX_HITS /\ (MAX_HITS - 1) \in hitsRead

(***************************************************************************)
(* C18: loading a shader binary fails fatally, before any shader module is *)
(* created from it, if the file is absent or its byte length is not a      *)
(* multiple of 4; otherwise the loader returns exactly length / 4 words.   *)
(***************************************************************************)
C18_LoaderRejectsBadFiles ==
  /\ (~fileExists \/ fileSize % 4 # 0) =>
       /\ step \in {"open", "size", "exit"}
       /\ step = "exit" => (status \in {"exit1", "abort"} /\ diag # 0)
  /\ (fileExists /\ fileSize % 4 = 0 /\ step \in {"module", "created"}) =>
       words = fileSize \div 4

(***************************************************************************)
(* C19: a configuration error (no GPU, no ray-tracing-capable device, no   *)
(* compute-capable queue family, a missing feature) is fatal and reported  *)
(* immediately with no retry: the run ends there with a failure status and *)
(* a diagnostic, before the logical device or any buffer, image or         *)
(* acceleration structure is created.                                      *)
(***************************************************************************)
C19_ConfigErrorIsFatal ==
  \A i \in DOMAIN trace :
    (Code[i].op = "check" /\ trace[i] = "fail") =>
      /\ i = Len(trace)
      /\ status \in {"exit1", "abort"}
      /\ diag = i
      /\ live \subseteq {<<"instance", "h">>}

(***************************************************************************)
(* C21: a geometry set with zero primitives (zero AABBs, or fewer than     *)
(* three indices) crashes nothing: no call ends in a fault, no call is     *)
(* stopped for being handed a size of zero, and once the BLAS builder has  *)
(* returned, its Accel exists on a backing buffer whose size is zero or    *)
(* the minimum the size query reports.                                     *)
(***************************************************************************)
ZeroPrimitives == IF prog = "rt" THEN count < 3 ELSE count = 0

BlasReturned == accel["blas"].addr # 0

BuildsOf(a, cs) == {k \in DOMAIN cs : cs[k].kind = "build" /\ cs[k].obj = a}

\* 0 = Unbuilt, 1 = Building (build recorded, no barrier yet), 2 = Built
AccelState(a, cs) ==
  IF BuildsOf(a, cs) = {} THEN 0
  ELSE LET last == CHOOSE k \in BuildsOf(a, cs) : \A j \in BuildsOf(a, cs) : j <= k IN
       IF \E j \in (last + 1) .. Len(cs) : cs[j].kind = "barrier" THEN 2 ELSE 1

BuiltOnce ==
  \A a \in Reachable :
    /\ Cardinality(BuildsOf(a, cmds)) <= 1
    /\ \A k \in BuildsOf(a, cmds) :
         k < Len(cmds) => IsBuildToTraceBarrier(cmds[k + 1])
    /\ (status = "exit0" /\ prog \in {"rt", "lsi"}) => AccelState(a, cmds) = 2

ForwardOnly ==
  \A a \in Reachable :
    AccelState(a, cmds') \in {AccelState(a, cmds), AccelState(a, cmds) + 1}

C22_AccelForwardOnly == []BuiltOnce /\ [][ForwardOnly]_vars

\* the BLAS is built while the TLAS is between its build command and its barrier
C22_Witness == AccelState("blas", cmds) = 2 /\ AccelState("tlas", cmds) = 1

(***************************************************************************)
(* C23: every BLAS and TLAS build performs its steps in the order:         *)
(* describe geometry, query sizes, allocate backing storage of exactly the *)
(* reported structure size and a scratch buffer of the reported scratch    *)
(* size (both with device addresses), create the structure object bound to *)
(* the backing storage, record the build command with the scratch address, *)
(* record the barrier; the build command is never recorded before the      *)
(* structure object exists on its backing storage.                         *)
(***************************************************************************)
\* the positions of the running builder at which the named thing has been done
BackingDone == {"createAS", "scratch", "build", "barrier", "destroyScratch", "address"}
ObjectDone == BackingDone \ {"createAS"}
ScratchDone == {"build", "barrier"}

IsTraceToCopyDependency(c) ==
  /\ c.kind \in {"barrier", "imageBarrier"}
  /\ c.srcStage \cap {"RAY_TRACING_SHADER", "ALL_COMMANDS"} # {}
  /\ "SHADER_WRITE" \in c.srcAccess
  /\ c.dstStage \cap {"TRANSFER", "ALL_COMMANDS"} # {}
  /\ "TRANSFER_READ" \in c.dstAccess

C24_TraceToCopyDependency ==
  \A i, k \in DOMAIN cmds :
    (i < k /\ cmds[i].kind = "traceRays" /\ cmds[k].kind = "copyImageToBuffer") =>
      \E j \in (i + 1) .. (k - 1) : IsTraceToCopyDependency(cmds[j])

(***************************************************************************)
(* C25: the single command sequence records, in this order: the            *)
(* acceleration-structure builds with their barriers, the output image     *)
(* transition from undefined to general layout, pipeline bind, binding-set *)
(* bind, push payload, the dispatch, the image transition to               *)
(* transfer-source layout and the copy to the readback buffer (the sample  *)
(* without an image records the same without the three image commands); at *)
(* the dispatch the image is in general layout, at the copy in             *)
(* transfer-source layout, and each transition's old layout is the layout  *)
(* the image is in at that point.                                          *)
(***************************************************************************)
CommandOrder(p) ==
  << "build", "barrier", "build", "barrier" >>
  \o (IF p = "rt" THEN << "imageBarrier" >> ELSE << >>)
  \o << "bindPipeline", "bindDescriptorSets", "pushConstants", "traceRays" >>
  \o (IF p = "rt" THEN << "imageBarrier", "copyImageToBuffer" >> ELSE << >>)

\* the layout the image is in before command k: that of the last transition
RECURSIVE LayoutBefore(_, _)
LayoutBefore(cs, k) ==
  IF k <= 1 THEN "UNDEFINED"
  ELSE IF cs[k - 1].kind = "imageBarrier" THEN cs[k - 1].newL
  ELSE LayoutBefore(cs, k - 1)

C25_CommandOrderAndLayouts ==
  prog \in {"rt", "lsi"} =>
    /\ Len(cmds) <= Len(CommandOrder(prog))
    /\ \A k \in DOMAIN cmds :
         /\ cmds[k].kind = CommandOrder(prog)[k]
         /\ cmds[k].kind = "imageBarrier" => cmds[k].oldL = LayoutBefore(cmds, k)
         /\ (cmds[k].kind = "traceRays" /\ prog = "rt") => LayoutBefore(cmds, k) = "GENERAL"
         /\ cmds[k].kind = "copyImageToBuffer" =>
              LayoutBefore(cmds, k) = "TRANSFER_SRC_OPTIMAL"
    /\ cmds # << >> => cmds[1].obj = "blas"
    /\ Len(cmds) >= 3 => cmds[3].obj = "tlas"
    /\ (\E i \in DOMAIN trace : Code[i].op = "end") => Len(cmds) = Len(CommandOrder(prog))

\* the copy to the readback buffer has been recorded
C25_Witness ==
  /\ prog = "rt"
  /\ Len(cmds) = Len(CommandOrder("rt"))
  /\ cmds[Len(cmds)].kind = "copyImageToBuffer"

(***************************************************************************)
(* C26: every shader group the pipeline is created with matches its        *)
(* variant: a General group references one raygen or miss stage and marks  *)
(* its closest-hit, any-hit and intersection slots unused; a               *)
(* TrianglesHitGroup references a closest-hit stage, optionally an any-hit *)
(* stage, and no general or intersection shader; a ProceduralHitGroup      *)
(* references an intersection stage, an any-hit stage and optionally a     *)
(* closest-hit stage; every referenced index names an existing stage of    *)
(* the matching kind.                                                      *)
(***************************************************************************)
Unused(x) == x = VK_SHADER_UNUSED_KHR

Names(x, st, kinds) == x \in 0 .. (Len(st) - 1) /\ st[x + 1] \in kinds

GroupMatchesVariant(g, st) ==
  IF g.type = "GENERAL"
  THEN /\ Names(g.generalShader, st, {"RAYGEN", "MISS"})
       /\ Unused(g.closestHitShader) /\ Unused(g.anyHitShader)
       /\ Unused(g.intersectionShader)
  ELSE IF g.type = "TRIANGLES_HIT_GROUP"
  THEN /\ Unused(g.generalShader) /\ Unused(g.intersectionShader)
       /\ Names(g.closestHitShader, st, {"CLOSEST_HIT"})
       /\ Unused(g.anyHitShader) \/ Names(g.anyHitShader, st, {"ANY_HIT"})
  ELSE /\ g.type = "PROCEDURAL_HIT_GROUP"
       /\ Unused(g.generalShader)
       /\ Names(g.intersectionShader, st, {"INTERSECTION"})
       /\ Names(g.anyHitShader, st, {"ANY_HIT"})
       /\ Unused(g.closestHitShader) \/ Names(g.closestHitShader, st, {"CLOSEST_HIT"})

PipelineCreateRan ==
  /\ prog \in {"rt", "lsi"}
  /\ \E i \in DOMAIN trace : Code[i].op = "create" /\ Code[i].obj = <<"pipeline", "h">>

C26_GroupsMatchVariant ==
  PipelineCreateRan =>
    \A k \in DOMAIN rpci(prog).groups :
      GroupMatchesVariant(rpci(prog).groups[k], rpci(prog).stages)

(***************************************************************************)
(* C27: before the dispatch is recorded, every binding declared in the     *)
(* descriptor layout has been written exactly once with a descriptor of    *)
(* the declared type: binding 0 holds the TLAS created and built in this   *)
(* run, bindings 1..n hold the storage buffers or the image, each an       *)
(* object created earlier in the run and not shared with another binding;  *)
(* the pool holds the one set and, per type, at least as many descriptors  *)
(* as the layout declares.                                                 *)
(***************************************************************************)
IsDescriptorUpdate(u) == Code[u].op = "host" /\ Code[u].obj = <<"dset", "update">>

CreatedBefore(obj, u) ==
  /\ \E c \in 1 .. (u - 1) : Code[c].op = "create" /\ Code[c].obj = obj /\ Succeeded(c)
  /\ ~\E d \in 1 .. (u - 1) : Code[d].op = "destroy" /\ Code[d].obj = obj

OfType(seq, ty) == {k \in DOMAIN seq : seq[k] = ty}

C27_BindingsWrittenOnce ==
  \A k \in DOMAIN cmds :
    (cmds[k].kind = "traceRays" /\ prog \in {"rt", "lsi"}) =>
      LET d == Descriptors(prog) IN
      /\ \E u \in DOMAIN trace :
           /\ IsDescriptorUpdate(u)
           /\ \A w \in DOMAIN d.writes : CreatedBefore(d.writes[w].resource, u)
           /\ \E c \in 1 .. (u - 1) :
                Code[c].op = "create" /\ Code[c].obj = <<"dset", "h">> /\ Succeeded(c)
      /\ Cardinality({u \in DOMAIN trace : IsDescriptorUpdate(u)}) = 1
      /\ \A b \in 0 .. (Len(d.bindings) - 1) :
           /\ Cardinality({w \in DOMAIN d.writes : d.writes[w].dstBinding = b}) = 1
           /\ \A w \in DOMAIN d.writes :
                d.writes[w].dstBinding = b =>
                  /\ d.writes[w].descriptorType = d.bindings[b + 1]
                  /\ d.writes[w].descriptorCount = 1
      /\ \A w \in DOMAIN d.writes : d.writes[w].dstBinding \in 0 .. (Len(d.bindings) - 1)
      /\ \A w, x \in DOMAIN d.writes :
           w # x => d.writes[w].resource # d.writes[x].resource
      /\ \E w \in DOMAIN d.writes :
           /\ d.writes[w].dstBinding = 0
           /\ d.writes[w].resource = <<"tlas", "as">>
           /\ \E j \in 1 .. (k - 1) : cmds[j].kind = "build" /\ cmds[j].obj = "tlas"
      /\ d.maxSets >= 1
      /\ \A ty \in {d.bindings[b] : b \in DOMAIN d.bindings} :
           \E s \in DOMAIN d.poolSizes :
             /\ d.poolSizes[s].type = ty
             /\ d.poolSizes[s].descriptorCount >= Cardinality(OfType(d.bindings, ty))

\* the dispatch of the segment-intersection sample, with its seven bindings
C27_Witness ==
  /\ prog = "lsi"
  /\ \E k \in DOMAIN cmds : cmds[k].kind = "traceRays"
  /\ Len(Descriptors(prog).writes) = 7

(***************************************************************************)
(* C28: every BLAS geometry entry built by createBLAS_Triangles and        *)
(* createBLAS_AABBs is non-opaque: the geometry a BLAS build command is    *)
(* recorded with does not carry the opaque flag, so any-hit invocation is  *)
(* never skipped for it.                                                   *)
(***************************************************************************)
IsBlasBuild(c) == c.kind = "build" /\ c.dst = "blas"

C28_BlasGeometryNonOpaque ==
  \A k \in DOMAIN recorded :
    IsBlasBuild(recorded[k]) =>
      /\ recorded[k].geom.geometryType \in {"TRIANGLES", "AABBS"}
      /\ "OPAQUE" \notin recorded[k].geom.flags

\* both kinds of BLAS get built with primitives in them
C28_Witness ==
  \E k \in DOMAIN recorded :
    /\ IsBlasBuild(recorded[k])
    /\ recorded[k].primitiveCount > 0
    /\ recorded[k].geom.geometryType = (IF prog = "rt" THEN "TRIANGLES" ELSE "AABBS")

(***************************************************************************)
(* C29: every TLAS instance carries a visibility mask with all 8 bits set, *)
(* an identity transform, shader-binding-table record offset 0, the        *)
(* address of the BLAS built in the same run, and the culling-disable      *)
(* flag; it is that instance the TLAS build reads.                         *)
(***************************************************************************)
IsIdentity(m) == \A r \in 0 .. 2 : \A c \in 0 .. 3 : m[r][c] = (IF r = c THEN 1 ELSE 0)

C29_InstanceFields ==
  instBuf.live =>
    /\ instBuf.data = inst
    /\ \A b \in 0 .. 7 : Bit(instBuf.data.mask, b)
    /\ instBuf.data.mask < Pow2(8)
    /\ IsIdentity(instBuf.data.transform)
    /\ instBuf.data.instanceShaderBindingTableRecordOffset = 0
    /\ "TRIANGLE_FACING_CULL_DISABLE" \in instBuf.data.flags
    /\ instBuf.data.accelerationStructureReference = accel["blas"].addr
    /\ accel["blas"].addr # 0 /\ accel["blas"].as
    /\ \E k \in DOMAIN recorded : IsBlasBuild(recorded[k])
    /\ \A k \in DOMAIN recorded :
         (recorded[k].kind = "build" /\ recorded[k].dst = "tlas") =>
           /\ recorded[k].geom.geometryType = "INSTANCES"
           /\ recorded[k].geom.data = instBuf.addr
           /\ recorded[k].primitiveCount = 1

\* the TLAS build has been recorded over the uploaded instance
C29_Witness ==
  /\ instBuf.live
  /\ \E k \in DOMAIN recorded : recorded[k].kind = "build" /\ recorded[k].dst = "tlas"

(***************************************************************************)
(* C30: the TLAS build reads the BLAS its instance references, so the BLAS *)
(* build is recorded before the TLAS build and between the two lies a      *)
(* memory dependency from the acceleration-structure-build stage's writes  *)
(* whose destination scope includes the acceleration-structure-build       *)
(* stage.                                                                  *)
(***************************************************************************)
\* stages whose scope covers the acceleration-structure build
CoversBuildStage == {"ACCELERATION_STRUCTURE_BUILD", "ALL_COMMANDS"}

IsBuildToBuildDependency(c) ==
  /\ c.kind = "barrier"
  /\ c.srcStage \cap CoversBuildStage # {}
  /\ "ACCELERATION_STRUCTURE_WRITE" \in c.srcAccess
  /\ c.dstStage \cap CoversBuildStage # {}
  /\ "ACCELERATION_STRUCTURE_READ" \in c.dstAccess

BlasRecordedBeforeTlas ==
  \A k \in DOMAIN cmds :
    (cmds[k].kind = "build" /\ cmds[k].obj = "tlas") =>
      \E i \in 1 .. (k - 1) : cmds[i].kind = "build" /\ cmds[i].obj = "blas"

C30_BlasVisibleToTlasBuild ==
  \A k \in DOMAIN cmds :
    (cmds[k].kind = "build" /\ cmds[k].obj = "tlas") =>
      \E i \in 1 .. (k - 1) :
        /\ cmds[i].kind = "build" /\ cmds[i].obj = "blas"
        /\ \E j \in (i + 1) .. (k - 1) : IsBuildToBuildDependency(cmds[j])

(***************************************************************************)
(* C31: in each sample the shader stages named when the push payload is    *)
(* recorded are exactly the stages the pipeline layout declares for its    *)
(* push-constant range, and the offset and size pushed are those of the    *)
(* declared range: offset 0 and the size of the Push record.               *)
(***************************************************************************)
PushRecorded == \E k \in DOMAIN cmds : cmds[k].kind = "pushConstants"

C31_PushMatchesDeclaredRange ==
  PushRecorded =>
    /\ PushConstants(prog).cmd.stageFlags = PushConstants(prog).pcr.stageFlags
    /\ PushConstants(prog).cmd.offset = PushConstants(prog).pcr.offset
    /\ PushConstants(prog).cmd.size = PushConstants(prog).pcr.size
    /\ PushConstants(prog).pcr.offset = 0

\* the part of C31 that does hold in both samples: offset and size
C31_PushOffsetAndSize ==
  PushRecorded =>
    /\ PushConstants(prog).cmd.offset = PushConstants(prog).pcr.offset
    /\ PushConstants(prog).cmd.size = PushConstants(prog).pcr.size

(***************************************************************************)
(* C32: for the vertex count and index count passed to                     *)
(* createBLAS_Triangles, every vertex index the build may address, 0 up to *)
(* the declared maxVertex, is less than the vertex count and so inside the *)
(* vertex buffer, and the 3 * primitiveCount indices the build reads lie   *)
(* inside the index buffer.  count is both the vertex count and the index  *)
(* count of the call in main.                                              *)
(***************************************************************************)
IsTriangleBuild(c) == IsBlasBuild(c) /\ c.geom.geometryType = "TRIANGLES"

C32_IndicesInsideIndexBuffer ==
  \A k \in DOMAIN recorded :
    IsTriangleBuild(recorded[k]) => 3 * recorded[k].primitiveCount <= count

C32_TriangleInputsInBounds ==
  \A k \in DOMAIN recorded :
    IsTriangleBuild(recorded[k]) =>
      /\ \A v \in 0 .. recorded[k].geom.maxVertex : v < count
      /\ 3 * recorded[k].primitiveCount <= count

(***************************************************************************)
(* C33: destroyBuffer, destroyImage and destroyAccel are idempotent on a   *)
(* record: a call leaves the record empty, a call on an empty record makes *)
(* no destroy or free call to the device, and so no handle is destroyed or *)
(* freed twice in any sequence of destroy calls.                           *)
(***************************************************************************)
NoHandleTwice ==
  \A k1, k2 \in DOMAIN devCalls : devCalls[k1].h = devCalls[k2].h => k1 = k2

DestroyedAreEmpty ==
  \A k \in DOMAIN destroyed : held[destroyed[k]] = EmptyRecords[destroyed[k]]

SecondCallIsSilent ==
  \A r \in {"vbo", "outIm", "blas"} :
    (destroyed' = Append(destroyed, r) /\ held[r] = EmptyRecords[r]) =>
      (devCalls' = devCalls /\ held' = held)

C33_DestroyIdempotent ==
  [](NoHandleTwice /\ DestroyedAreEmpty) /\ [][SecondCallIsSilent]_vars

\* all three records were created, all eight handles have been released, and
\* one helper was called a second time on its record
C33_Witness ==
  /\ held = EmptyRecords
  /\ Len(devCalls) = 8
  /\ \E k \in DOMAIN destroyed : k > 1 /\ destroyed[k] = destroyed[k - 1]

(***************************************************************************)
(* C34: destruction follows dependency order: no object a recorded command *)
(* uses is destroyed before submitAndWait has returned; an acceleration    *)
(* structure is destroyed before its backing buffer, a buffer before its   *)
(* memory is freed, an image view before its image, the TLAS before the    *)
(* BLAS it references, and the pipeline and descriptor objects before the  *)
(* device.                                                                 *)
(***************************************************************************)
\* the objects the commands of the two samples name: the builds their
\* structures, backing, scratch and inputs; the image barrier and the copy the
\* image and the readback buffer; the binds and the push the pipeline, its
\* layout and the descriptor set with what it binds; the dispatch the SBT
UsedByCommands ==
  {"blas", "blasBacking", "blasScratch", "tlas", "tlasBacking", "tlasScratch", "instBuf",
   "vbo", "ibo", "bAABBs", "outIm", "readback", "pipeline", "pipelineLayout", "dset",
   "dpool", "sbt", "bQueryPts", "bQueryEdge", "bBasePts", "bBaseEdge", "bOutHits",
   "bOutCounter"}

IsDestroyAt(j, obj) == Ran(j) /\ Code[j].op = "destroy" /\ Code[j].obj = obj

\* wherever y has been destroyed, x was destroyed earlier
DestroyedBefore(x, y) ==
  \A j \in DOMAIN trace :
    IsDestroyAt(j, y) => \E k \in 1 .. (j - 1) : IsDestroyAt(k, x)

BackingOf(a) == IF a = "blas" THEN "blasBacking" ELSE "tlasBacking"

DestroyOrderAmongObjects ==
  /\ \A a \in {"blas", "tlas"} : DestroyedBefore(<<a, "as">>, <<BackingOf(a), "buf">>)
  /\ \A b \in Buffers(prog) : DestroyedBefore(<<b, "buf">>, <<b, "mem">>)
  /\ DestroyedBefore(<<"outIm", "view">>, <<"outIm", "img">>)
  /\ DestroyedBefore(<<"tlas", "as">>, <<"blas", "as">>)
  /\ \A o \in {"pipeline", "pipelineLayout", "dsl", "dpool"} :
       DestroyedBefore(<<o, "h">>, <<"dev", "h">>)

C34_DestructionInDependencyOrder ==
  prog \in {"rt", "lsi"} =>
    /\ \A j \in DOMAIN trace : IsDestroyOf(j, UsedByCommands) => WaitDoneBefore(j)
    /\ DestroyOrderAmongObjects

\* what holds of C34: the order among the objects, and the wait before every
\* destruction but that of the BLAS scratch buffer
C34_AllButBlasScratch ==
  prog \in {"rt", "lsi"} =>
    /\ \A j \in DOMAIN trace :
         IsDestroyOf(j, UsedByCommands \ {"blasScratch"}) => WaitDoneBefore(j)
    /\ DestroyOrderAmongObjects

(***************************************************************************)
(* C35: host mapping is well paired: every buffer the host maps was        *)
(* created with host-visible and host-coherent memory, every map of a      *)
(* buffer is followed by an unmap of that buffer before it is mapped again *)
(* or destroyed, and no device-local buffer (acceleration-structure        *)
(* backing storage, scratch) is ever mapped.                               *)
(***************************************************************************)
\* the findMemoryType statement of the buffer that statement i maps
MemoryTypeSearchOf(i) ==
  {j \in 1 .. (i - 1) : Code[j].op = "findMemoryType" /\ Code[j].obj = Code[i].obj}

\* buffers that are created with device-local memory
DeviceLocalBuffers(p) ==
  {Program(p)[j].obj[1] :
     j \in {k \in DOMAIN Program(p) :
              Program(p)[k].op = "findMemoryType" /\ Program(p)[k].req = DEVICE_LOCAL}}

IsMapAt(i) == Ran(i) /\ Code[i].op = "map"

\* the memory the mapped buffer was given is the one a successful search for a
\* host-visible and host-coherent type returned
MappedAreHostVisible ==
  \A i \in DOMAIN trace :
    IsMapAt(i) =>
      /\ MemoryTypeSearchOf(i) # {}
      /\ \A j \in MemoryTypeSearchOf(i) : Code[j].req = HostVisCoh /\ Succeeded(j)

MapsArePaired ==
  \A i \in DOMAIN trace :
    IsMapAt(i) =>
      \A j \in (i + 1) .. Len(trace) :
        (Code[j].op \in {"map", "destroy"} /\ Code[j].obj[1] = Code[i].obj[1]) =>
          \E k \in (i + 1) .. (j - 1) : Code[k].op = "unmap" /\ Code[k].obj = Code[i].obj

DeviceLocalNeverMapped ==
  \A i \in DOMAIN trace : IsMapAt(i) => Code[i].obj[1] \notin DeviceLocalBuffers(prog)

C35_HostMappingWellPaired ==
  MappedAreHostVisible /\ MapsArePaired /\ DeviceLocalNeverMapped

\* what holds of C35: all of it in a build that keeps its asserts, and the
\* pairing and the device-local part in every build
C35_WithAssertsKept ==
  /\ (~(prog = "compute" /\ ndebug)) => MappedAreHostVisible
  /\ MapsArePaired /\ DeviceLocalNeverMapped

(***************************************************************************)
(* C36: in the triangle sample every host read of the readback buffer      *)
(* stays inside it: each pixel offset (y * W + x) * 4 the host reads, and  *)
(* the four floats at it, lie below W * H * 4 floats, one pixel is read    *)
(* for each ray printed, and the ray count placed in the push payload is   *)
(* the width of the dispatch.                                              *)
(***************************************************************************)
C36_ReadbackReadsInBounds ==
  /\ \A o \in pixelsRead : o < W * H * 4
  /\ pixelsRead = {at(x, 0) + k : x \in 0 .. (Len(printed) - 1), k \in 0 .. 3}
  /\ \A x \in 0 .. (Len(printed) - 1) : x < TraceSetup.width /\ 0 < TraceSetup.height
  /\ Len(printed) <= TraceSetup.rayCount
  /\ TraceSetup.rayCount = TraceSetup.width
  /\ TraceSetup.readbackFloats = W * H * 4
  /\ status # "abort"

\* every ray has been printed and the buffer unmapped
C36_Witness ==
  /\ step = "cleanup"
  /\ Len(printed) = RAY_COUNT
  /\ Cardinality(pixelsRead) = 4 * RAY_COUNT

====
